---- MODULE Spec2Model ----
(***************************************************************************)
(* Model of perfarce.py, the Mercurial extension that pushes to and pulls  *)
(* from Perforce depots.                                                   *)
(*                                                                         *)
(* The local repository is a sequence of changesets; the index of a        *)
(* changeset is its revision number and stands for its node id, 0 is the   *)
(* null node.  The server is a sequence of changelists; the index is the   *)
(* changelist number.  Files are integers: 0 is a .hg* file (.hgtags),     *)
(* n > 0 is the file first added by local changeset n and -c the file      *)
(* first added by the changelist c that another p4 user submitted.         *)
(*                                                                         *)
(* A description is a sequence of parts; a part is either plain text or an *)
(* embedded {{mercurial first[:last]}} token.                              *)
(*                                                                         *)
(* A remote path is a sequence of pieces: the scheme "p4:", the separator  *)
(* "/" or a name.                                                          *)
(***************************************************************************)
EXTENDS Integers, Sequences, FiniteSets, TLC

\* bounds of the model
MaxCommits == 2
MaxTipCommits == 1
MaxCL == 3
MaxFiles == 3
MaxPath == 5
MaxChain == 5

\* changesets of a history searched by find
MaxHist == 5

\* longest stream of records a command returns
MaxRecords == 3

VARIABLES repo, nuser, p4, last, cf, view, call

vars == <<repo, nuser, p4, last, cf, view, call>>

Null == 0
HgFile == 0

RECURSIVE SortedSeq(_)
SortedSeq(S) ==
    IF S = {} THEN << >>
    ELSE LET m == CHOOSE x \in S : \A y \in S : x <= y
         IN <<m>> \o SortedSeq(S \ {m})

Range(s) == {s[i] : i \in 1..Len(s)}

Last(s) == s[Len(s)]

\* ------------------------------------------------------------------------
\* Host repository queries (changelog, contexts)

Nodes(r) == 1..Len(r)

\* ctx.parents(): the first parent (null for a root), and the second if any
Parents(r, n) ==
    IF n = Null THEN << >>
    ELSE IF r[n].p2 = Null THEN <<r[n].p1>>
    ELSE <<r[n].p1, r[n].p2>>

\* ctx.parents()[0]: the null context when the changeset is a root
Parent0(r, n) == IF n = Null THEN Null ELSE r[n].p1

Children(r, n) == {c \in Nodes(r) : r[c].p1 = n \/ r[c].p2 = n}

RECURSIVE Anc(_, _)
Anc(r, n) ==
    IF n = Null THEN {}
    ELSE {n} \cup Anc(r, r[n].p1) \cup Anc(r, r[n].p2)

\* changelog.nodesbetween([a], [b])[0]: the descendants of a that are
\* ancestors of b, in revision order; every ancestor of b when a is null
nodesbetween(r, a, b) ==
    SortedSeq({x \in Anc(r, b) : a = Null \/ a \in Anc(r, x)})

Tip(r) == Len(r)

Manifest(r, n) == IF n = Null THEN {} ELSE r[n].man

\* ------------------------------------------------------------------------
\* Descriptions

Txt == [k |-> "txt", a |-> 0, b |-> 0]
Tok(a, b) == [k |-> "tok", a |-> a, b |-> b]

\* re_hgid.search: position of the first token of a description, 0 if none
RECURSIVE FirstTok(_, _)
FirstTok(desc, i) ==
    IF i > Len(desc) THEN 0
    ELSE IF desc[i].k = "tok" THEN i
    ELSE FirstTok(desc, i + 1)

re_hgid_search(desc) == FirstTok(desc, 1)

\* noid: re_hgid.sub("{{}}", d)
noid(desc) == [i \in 1..Len(desc) |-> IF desc[i].k = "tok" THEN Tok(0, 0) ELSE desc[i]]

parsenodes(r, desc) ==
    LET m == re_hgid_search(desc)
    IN IF m = 0 THEN << >>
       ELSE LET g2 == desc[m].a
                g4 == desc[m].b
            IN IF g2 \in Nodes(r) /\ (g4 = 0 \/ g4 \in Nodes(r))
               THEN nodesbetween(r, g2, IF g4 = 0 THEN g2 ELSE g4)
               ELSE << >>

\* ------------------------------------------------------------------------
\* HistoryCorrelator: p4client.find

\* dothgonly: the changeset has files and all of them are .hg* files
dothgonly(r, n) == r[n].files # {} /\ r[n].files \subseteq {HgFile}

\* the base-mode walk along the recorded descent path (lines 316-322);
\* mq is the qbase node, 0 when there is no patch queue
RECURSIVE BaseWalk(_, _, _, _)
BaseWalk(r, ctx, path, mq) ==
    IF path = << >> THEN [ctx |-> ctx, path |-> path]
    ELSE IF dothgonly(r, path[1])
            /\ ~(mq # Null /\ nodesbetween(r, mq, ctx) # << >>)
         THEN BaseWalk(r, path[1], Tail(path), mq)
         ELSE [ctx |-> ctx, path |-> << >>]

\* the parents of ctx that join the next frontier (lines 327-330)
RECURSIVE AddParents(_, _, _, _, _)
AddParents(ps, ctx, path, next, seen) ==
    IF ps = << >> THEN [next |-> next, seen |-> seen]
    ELSE IF Head(ps) # Null /\ Head(ps) \notin seen
         THEN AddParents(Tail(ps), ctx, path,
                         Append(next, [ctx |-> Head(ps), path |-> <<ctx>> \o path]),
                         seen \cup {Head(ps)})
         ELSE AddParents(Tail(ps), ctx, path, next, seen)

RECURSIVE FindLoop(_, _, _, _, _, _, _, _)
FindLoop(r, current, i, next, seen, base, p4rev, mq) ==
    IF i > Len(current)
    THEN IF next = << >>
         THEN [node |-> Null, p4 |-> 0, found |-> FALSE]
         ELSE FindLoop(r, next, 1, << >>, seen, base, p4rev, mq)
    ELSE LET ctx == current[i].ctx
             path == current[i].path
             marked == r[ctx].p4 # 0
             w == IF marked /\ base THEN BaseWalk(r, ctx, path, mq)
                  ELSE [ctx |-> ctx, path |-> path]
         IN IF marked /\ (p4rev = 0 \/ r[ctx].p4 = p4rev)
            THEN [node |-> w.ctx, p4 |-> r[ctx].p4, found |-> TRUE]
            ELSE LET a == AddParents(Parents(r, w.ctx), w.ctx, w.path, next, seen)
                 IN FindLoop(r, current, i + 1, a.next, a.seen, base, p4rev, mq)

\* find(rev, base, p4rev): rev = 0 stands for rev=None, the tip of the
\* default branch (every changeset of the model is on the default branch)
find(r, rev, base, p4rev, mq) ==
    IF Len(r) = 0 THEN [node |-> Null, p4 |-> 0, found |-> FALSE]
    ELSE FindLoop(r, <<[ctx |-> IF rev = 0 THEN Tip(r) ELSE rev, path |-> << >>]>>,
                  1, << >>, {}, base, p4rev, mq)

\* the model has no patch queue: repo['qbase'] raises and mqnode is None
mqnode == Null

\* ------------------------------------------------------------------------
\* PendingTracker: p4client._readp4stat

Client == "c"
Other == "o"

CLs(s) == 1..Len(s)

\* the records of a changes query, in the order the server returns them
\* (most recent changelist first)
RECURSIVE Descending(_)
Descending(S) ==
    IF S = {} THEN << >>
    ELSE LET m == CHOOSE x \in S : \A y \in S : x >= y
         IN <<m>> \o Descending(S \ {m})

\* changes -l -c client partial...@p4id,#head
SubmittedSince(s, p4id) ==
    Descending({c \in CLs(s) : s[c].status = "submitted" /\ s[c].client = Client /\ c >= p4id})

\* changes -l -c client -s pending
PendingOf(s) ==
    Descending({c \in CLs(s) : s[c].status = "pending" /\ s[c].client = Client})

\* a helper that keeps the correlated changelist
RECURSIVE helperKeep(_, _, _, _)
helperKeep(r, s, cs, p4id) ==
    IF cs = << >> THEN << >>
    ELSE <<[change |-> Head(cs),
            submitted |-> s[Head(cs)].status = "submitted",
            nodes |-> parsenodes(r, s[Head(cs)].desc)]>>
         \o helperKeep(r, s, Tail(cs), p4id)

\* helper: one entry per changelist other than the correlated one
RECURSIVE helperAll(_, _, _, _)
helperAll(r, s, cs, p4id) ==
    IF cs = << >> THEN << >>
    ELSE IF Head(cs) = p4id THEN helperAll(r, s, Tail(cs), p4id)
    ELSE <<[change |-> Head(cs),
            submitted |-> s[Head(cs)].status = "submitted",
            nodes |-> parsenodes(r, s[Head(cs)].desc)]>>
         \o helperAll(r, s, Tail(cs), p4id)

\* a tracker that keeps the records in the order of the replies
sortNone(es) == es

\* p4pending.sort(): ascending changelist number
RECURSIVE sortEntries(_)
sortEntries(es) ==
    IF es = << >> THEN << >>
    ELSE LET i == CHOOSE i \in 1..Len(es) : \A j \in 1..Len(es) : es[i].change <= es[j].change
         IN <<es[i]>> \o sortEntries(SubSeq(es, 1, i - 1) \o SubSeq(es, i + 1, Len(es)))

readp4stat(r, s) ==
    LET p4id == find(r, 0, FALSE, 0, mqnode).p4
        es == helperAll(r, s, SubmittedSince(s, p4id) \o PendingOf(s), p4id)
    IN [p4stat |-> UNION {Range(es[i].nodes) : i \in 1..Len(es)},
        p4pending |-> sortEntries(es)]

\* ------------------------------------------------------------------------
\* PushEngine, first half: p4client.pushcommon

RECURSIVE TrimFront(_, _)
TrimFront(nodes, stat) ==
    IF nodes # << >> /\ Head(nodes) \in stat THEN TrimFront(Tail(nodes), stat)
    ELSE nodes

RECURSIVE TrimBack(_, _)
TrimBack(nodes, stat) ==
    IF nodes # << >> /\ Last(nodes) \in stat
    THEN TrimBack(SubSeq(nodes, 1, Len(nodes) - 1), stat)
    ELSE nodes

\* a trim that removes every pending node, interior ones included
TrimEvery(nodes, stat) == SelectSeq(nodes, LAMBDA n : n \notin stat)

\* lines 1016-1023: nodes at either end that are already pending or submitted
TrimNodes(nodes, stat) == TrimBack(TrimFront(nodes, stat), stat)

\* lines 1035-1046: a remaining node is pending, or has a child with the marker
AlreadyInP4(r, n, stat) ==
    n \in stat \/ \E c \in Children(r, n) : r[c].p4 # 0

\* repo.status(node1, node2)[:3] without the .hg* files (lines 1053-1077);
\* a file of the model is never modified after it was added
StatusAdd(r, c1, c2) == (Manifest(r, c2) \ Manifest(r, c1)) \ {HgFile}
StatusRem(r, c1, c2) == (Manifest(r, c1) \ Manifest(r, c2)) \ {HgFile}

RECURSIVE JoinDesc(_, _)
JoinDesc(r, nodes) ==
    IF nodes = << >> THEN << >>
    ELSE r[Head(nodes)].desc \o JoinDesc(r, Tail(nodes))

\* a description that joins the descriptions and embeds no token
MakeDescNoToken(r, nodes) == JoinDesc(r, nodes)

\* lines 1096-1107
MakeDesc(r, nodes) ==
    JoinDesc(r, nodes)
    \o <<IF Len(nodes) > 1 THEN Tok(nodes[1], Last(nodes)) ELSE Tok(Last(nodes), 0)>>

Entries(S) == LET q == SortedSeq(S) IN [i \in 1..Len(q) |-> [f |-> q[i], g |-> ""]]

\* a pushcommon that goes on with empty lists
NoChangesNever(add, rem) == FALSE

\* line 1079: not (mod or add or rem)
NoChanges(add, rem) == add = {} /\ rem = {}

\* pushcommon from line 995 on, given the result f of find(base=True) and
\* the pending cache stat.  rev is << >> (no --rev), <<n>> (one revision) or
\* <<n1, n2>> (a pair)
pushnodes(r, f, stat, rev, force) ==
    LET p4rev == f.node
        p4id == f.p4
        ctx2 == IF rev = << >> THEN Tip(r) ELSE Last(rev)
        ctx1 == IF rev = << >> THEN p4rev ELSE Parent0(r, rev[1])
        between == nodesbetween(r, ctx1, ctx2)
        nodes0 == IF p4id # 0 /\ between # << >> THEN Tail(between) ELSE between
        nodes == IF force THEN nodes0 ELSE TrimNodes(nodes0, stat)
        trim == nodes # nodes0
        c1 == IF trim /\ nodes # << >> THEN Parent0(r, nodes[1]) ELSE ctx1
        c2 == IF trim /\ nodes # << >> THEN Last(nodes) ELSE ctx2
        add == IF nodes = << >> THEN {} ELSE StatusAdd(r, c1, c2)
        rem == IF nodes = << >> THEN {} ELSE StatusRem(r, c1, c2)
        out == [res |-> "ok", p4rev |-> p4rev, p4id |-> p4id, nodes |-> nodes,
                ctx1 |-> c1, ctx2 |-> c2,
                desc |-> IF nodes = << >> THEN << >> ELSE MakeDesc(r, nodes),
                mod |-> << >>, add |-> Entries(add), rem |-> Entries(rem)]
    IN IF ~f.found /\ ~force THEN [out EXCEPT !.res = "nochangelist", !.nodes = << >>]
       ELSE IF ~force /\ \E i \in 1..Len(nodes) : AlreadyInP4(r, nodes[i], stat)
            THEN [out EXCEPT !.res = "alreadyinp4"]
       ELSE IF NoChanges(add, rem) THEN [out EXCEPT !.res = "nochanges"]
       ELSE out

pushcommon(r, s, rev, force) ==
    pushnodes(r, find(r, 0, TRUE, 0, mqnode), readp4stat(r, s).p4stat, rev, force)

\* ------------------------------------------------------------------------
\* FileClassifier: push, lines 1452-1478.  add and rem are sequences of
\* [f, g] entries (file, flags), cpy maps a destination to [src, chg].

NoOps == [moves |-> << >>, copies |-> << >>, ntg |-> << >>, add |-> << >>, mod2 |-> << >>]

\* a classifier that moves without looking whether the source is removed
KindMoveAlways(move, copy, r, rems) ==
    IF move THEN "move"
    ELSE IF copy THEN "copy" ELSE "ntg"

\* a classifier that does not look at the copy capability
KindNoCopy(move, copy, r, rems) ==
    IF move /\ r \in rems THEN "move" ELSE "ntg"

\* a classifier that copies whatever it does not move
KindCopyAlways(move, copy, r, rems) ==
    IF move /\ r \in rems THEN "move" ELSE "copy"

\* lines 1465-1471: what becomes of an added file copied from r
Kind(move, copy, r, rems) ==
    IF move /\ r \in rems THEN "move"
    ELSE IF copy THEN "copy" ELSE "ntg"

RECURSIVE ClassifyLoop(_, _, _, _, _, _)
ClassifyLoop(add, cpy, move, copy, rems, acc) ==
    IF add = << >> THEN [ops |-> acc, rems |-> rems]
    ELSE LET e == Head(add)
             f == e.f
         IN IF f \in DOMAIN cpy
            THEN LET r == cpy[f].src
                     kind == Kind(move, copy, r, rems)
                     a1 == CASE kind = "move" -> [acc EXCEPT !.moves = Append(@, [src |-> r, f |-> f, g |-> e.g])]
                             [] kind = "copy" -> [acc EXCEPT !.copies = Append(@, [src |-> r, f |-> f])]
                             [] OTHER -> [acc EXCEPT !.ntg = Append(@, [src |-> r, f |-> f])]
                     a2 == IF cpy[f].chg THEN [a1 EXCEPT !.mod2 = Append(@, e)] ELSE a1
                 IN ClassifyLoop(Tail(add), cpy, move, copy,
                                 IF kind = "move" THEN rems \ {r} ELSE rems, a2)
            ELSE ClassifyLoop(Tail(add), cpy, move, copy, rems,
                              [acc EXCEPT !.add = Append(@, e)])

\* a remove list that keeps the sources of the moves
SelectAll(s, S) == s

SelectSeq2(s, S) == SelectSeq(s, LAMBDA e : e.f \in S)

classify(mod, add, rem, cpy, move, copy) ==
    LET c == ClassifyLoop(add, cpy, move, copy, {rem[i].f : i \in 1..Len(rem)}, NoOps)
    IN [mod |-> mod, mod2 |-> c.ops.mod2, moves |-> c.ops.moves, copies |-> c.ops.copies,
        ntg |-> c.ops.ntg, add |-> c.ops.add, rem |-> SelectSeq2(rem, c.rems)]

\* ------------------------------------------------------------------------
\* Server side of the remote commands

NewCL(desc, jobs) ==
    [status |-> "pending", client |-> Client, desc |-> desc, files |-> {}, jobs |-> jobs]

Deleted == [status |-> "deleted", client |-> Client, desc |-> << >>, files |-> {}, jobs |-> FALSE]

FilesOf(es, a) == {[f |-> es[i].f, a |-> a] : i \in 1..Len(es)}

Names(F) == {e.f : e \in F}

\* a revert that closes no file
RevertNothing(s, F) == s

\* p4 revert of files: closes them in whichever pending changelist of the
\* client they are open
RevertFiles(s, F) ==
    [c \in CLs(s) |->
        IF s[c].status = "pending" /\ s[c].client = Client
        THEN [s[c] EXCEPT !.files = {e \in @ : e.f \notin F}]
        ELSE s[c]]

\* p4 revert -c change of files
RevertIn(s, c, F) == [s EXCEPT ![c].files = {e \in @ : e.f \notin F}]

\* p4 submit -c change: the server moves a changelist that is not the most
\* recent one to a new number when it submits it
ServerSubmit(s, c) ==
    IF c = Len(s) THEN [s EXCEPT ![c].status = "submitted"]
    ELSE Append([s EXCEPT ![c] = Deleted], [s[c] EXCEPT !.status = "submitted"])

\* p4client.change: create a changelist, or update the description and jobs
change(s, use, desc, jobs) ==
    IF use = 0 THEN Append(s, NewCL(desc, jobs))
    ELSE [s EXCEPT ![use].desc = desc, ![use].jobs = @ \/ jobs]

\* revert (p4revert) of one changelist, lines 1621-1642; describe fails for
\* a changelist the server does not have and the changelist is then skipped
revertOne(s, c) ==
    IF c \notin CLs(s) \/ s[c].status = "deleted" THEN s
    ELSE LET s1 == RevertFiles(s, Names(s[c].files))
             s2 == [s1 EXCEPT ![c].jobs = FALSE]
         IN IF s[c].status = "pending" /\ s2[c].files = {}
            THEN [s2 EXCEPT ![c] = Deleted]
            ELSE s2

\* ------------------------------------------------------------------------
\* PushEngine, second half: push, lines 1412-1575

\* line 1415-1417: the last submitted entry of the pending list, if any
SyncId(p4pending, p4id) ==
    LET sub == {i \in 1..Len(p4pending) : p4pending[i].submitted}
    IN IF sub = {} THEN p4id
       ELSE p4pending[CHOOSE i \in sub : \A j \in sub : j <= i].change

\* a push that never looks for a changelist to reuse
ReuseNever(s, cs, noiddesc, use) == use

\* lines 1429-1433: the pending changelist whose description matches once
\* the token is stripped; the last record of the reply wins
RECURSIVE Reuse(_, _, _, _)
Reuse(s, cs, noiddesc, use) ==
    IF cs = << >> THEN use
    ELSE Reuse(s, Tail(cs), noiddesc,
               IF noid(s[Head(cs)].desc) = noiddesc THEN Head(cs) ELSE use)

\* p4client.sync(change, fake, force, files), lines 769-801: the sync command
\* it runs; without files the command names the whole client view
sync(at, fake, force, files) ==
    [flag |-> IF fake THEN "-k" ELSE IF force THEN "-f" ELSE "",
     at |-> at,
     all |-> files = {},
     files |-> files]

\* lines 1419-1423: the syncs of a push to the last changelist pulled,
\* converted or submitted
PushSyncs(keep, p4id, mod) ==
    IF keep THEN <<sync(p4id, FALSE, FALSE, {})>>
    ELSE <<sync(p4id, TRUE, FALSE, {}),
           sync(p4id, FALSE, TRUE, {mod[i].f : i \in 1..Len(mod)})>>

\* a push that opens the files to edit before it moves and integrates
StepsEditFirst(ops, submit, keep) ==
    (IF ops.copies # << >> THEN <<"copy">> ELSE << >>)
    \o (IF ops.mod # << >> \/ ops.mod2 # << >> THEN <<"edit">> ELSE << >>)
    \o (IF ops.moves # << >> THEN <<"move">> ELSE << >>)
    \o (IF ops.ntg # << >> THEN <<"integrate">> ELSE << >>)
    \o (IF ops.mod # << >> \/ ops.add # << >> \/ ops.mod2 # << >> THEN <<"write">> ELSE << >>)
    \o (IF ops.add # << >> THEN <<"add">> ELSE << >>)
    \o (IF ops.rem # << >> THEN <<"delete">> ELSE << >>)
    \o (IF submit THEN <<"submit">> ELSE << >>)
    \o (IF submit /\ ~keep THEN <<"sync0">> ELSE << >>)

\* the remote operations of the try block in the order they are issued
Steps(ops, submit, keep) ==
    (IF ops.copies # << >> THEN <<"copy">> ELSE << >>)
    \o (IF ops.moves # << >> THEN <<"move">> ELSE << >>)
    \o (IF ops.ntg # << >> THEN <<"integrate">> ELSE << >>)
    \o (IF ops.mod # << >> \/ ops.mod2 # << >> THEN <<"edit">> ELSE << >>)
    \o (IF ops.mod # << >> \/ ops.add # << >> \/ ops.mod2 # << >> THEN <<"write">> ELSE << >>)
    \o (IF ops.add # << >> THEN <<"add">> ELSE << >>)
    \o (IF ops.rem # << >> THEN <<"delete">> ELSE << >>)
    \o (IF submit THEN <<"submit">> ELSE << >>)
    \o (IF submit /\ ~keep THEN <<"sync0">> ELSE << >>)

\* the files a step opens in the changelist
Opens(ops, step) ==
    CASE step = "copy" -> {[f |-> ops.copies[i].f, a |-> "A"] : i \in 1..Len(ops.copies)}
      [] step = "move" -> {[f |-> ops.moves[i].f, a |-> "A"] : i \in 1..Len(ops.moves)}
                          \cup {[f |-> ops.moves[i].src, a |-> "R"] : i \in 1..Len(ops.moves)}
      [] step = "integrate" -> {[f |-> ops.ntg[i].f, a |-> "A"] : i \in 1..Len(ops.ntg)}
      [] step = "edit" -> FilesOf(ops.mod, "M")
      [] step = "add" -> FilesOf(ops.add, "A")
      [] step = "delete" -> FilesOf(ops.rem, "R")
      [] OTHER -> {}

\* the server after the first k steps
RECURSIVE RunSteps(_, _, _, _, _)
RunSteps(s, use, ops, steps, k) ==
    IF k = 0 THEN s
    ELSE LET s1 == RunSteps(s, use, ops, steps, k - 1)
             st == steps[k]
         IN IF st = "submit" THEN ServerSubmit(s1, use)
            ELSE [s1 EXCEPT ![use].files = @ \cup Opens(ops, st)]

\* ------------------------------------------------------------------------
\* ClientView: p4client.__init__, lines 200-276

\* str.startswith for the two prefixes the constructor tests
StartsWithP4(path) == path # << >> /\ path[1] = "p4:"
StartsWithP4Slashes(path) ==
    Len(path) >= 3 /\ path[1] = "p4:" /\ path[2] = "/" /\ path[3] = "/"

\* position of the first separator of a string, 0 if it has none
RECURSIVE FirstSlash(_, _)
FirstSlash(str, i) ==
    IF i > Len(str) THEN 0
    ELSE IF str[i] = "/" THEN i
    ELSE FirstSlash(str, i + 1)

\* str.split('/', 1): one or two parts
Split1(str) ==
    LET i == FirstSlash(str, 1)
    IN IF i = 0 THEN <<str>>
       ELSE <<SubSeq(str, 1, i - 1), SubSeq(str, i + 1, Len(str))>>

\* lines 232-234: '/'.join(q for q in p.split('/') if q), then a trailing '/'
RECURSIVE Normalize(_, _)
Normalize(p, prev) ==
    IF p = << >> THEN IF prev = "/" \/ prev = "" THEN << >> ELSE <<"/">>
    ELSE IF Head(p) = "/"
         THEN (IF prev = "/" \/ prev = "" THEN << >> ELSE <<"/">>) \o Normalize(Tail(p), "/")
         ELSE <<Head(p)>> \o Normalize(Tail(p), Head(p))

\* what the constructor ends with: res is the exception that leaves it, or
\* "view" when an object is returned; cmds are the remote commands it
\* issued; client, root and partial are the fields of the object
Outcome(res, cmds, client, root, partial) ==
    [res |-> res, cmds |-> cmds, client |-> client, root |-> root, partial |-> partial]

\* a constructor that takes every path for a path of the p4 scheme
p4client_init_anypath(path, reply, isdir) ==
    Outcome("view", <<"client -o">>, <<"x">>, TRUE, << >>)

\* p4client.__init__(ui, repo, path); reply is what the server answers to
\* client -o ("none": no record, "many": several records, "error": an
\* error record, "spec": a client specification) and isdir says whether
\* one of the roots of the specification is an existing directory
p4client_init(path, reply, isdir) ==
    IF ~StartsWithP4(path) THEN Outcome("p4notclient", << >>, << >>, FALSE, << >>)
    ELSE IF ~StartsWithP4Slashes(path) THEN Outcome("p4badclient", << >>, << >>, FALSE, << >>)
    ELSE LET sc == Split1(SubSeq(path, 4, Len(path)))
         IN IF Len(sc) # 2 THEN Outcome("ValueError", << >>, << >>, FALSE, << >>)
            ELSE IF sc[2] = << >> THEN Outcome("view", << >>, << >>, FALSE, << >>)
            ELSE LET cp == Split1(sc[2])
                     c == cp[1]
                     p == IF Len(cp) = 2 THEN Normalize(cp[2], "") ELSE << >>
                     q == <<"client -o">>
                 IN IF reply \in {"none", "many"} THEN Outcome("Abort", q, << >>, FALSE, << >>)
                    ELSE IF reply = "error" THEN Outcome("p4badclient", q, << >>, FALSE, << >>)
                    ELSE IF ~isdir THEN Outcome("p4badclient", q, << >>, FALSE, << >>)
                    ELSE Outcome("view", q, c, TRUE, p)

\* the path and the server a command is given; the other specifications run
\* every command with a path that names a valid client
View(path, reply, isdir) == [path |-> path, reply |-> reply, isdir |-> isdir]

DefaultView == View(<<"p4:", "/", "/", "x", "/", "x">>, "spec", TRUE)

\* ------------------------------------------------------------------------
\* p4client.getuser, lines 567-611

\* the names getuser can return: the literal user name, the name built from
\* the server's user record, the mapped client name, the output of the
\* script; NoName is the empty string
NoName == ""
Literal == "user"
FromServer == "Full Name <email>"

\* lines 598-607: user -o; the server answers with a record of an existing
\* user ("full"), with the template of a user it does not know
\* ("template", no Update field), with a record that lacks FullName or
\* Email ("partial"), or with no record, which makes runone raise
ServerLookup(server) ==
    CASE server = "full" -> FromServer
      [] server = "none" -> "Abort"
      [] OTHER -> NoName

\* a getuser that asks the server first, whatever perfarce.clientuser says
getuser_serverfirst(cu, match, mapped, script, server, cacheN, cacheC) ==
    IF ServerLookup(server) # NoName
    THEN [out |-> ServerLookup(server), asked |-> {"server"}, cacheN |-> cacheN, cacheC |-> cacheC]
    ELSE IF cu = "regex" /\ match
    THEN [out |-> mapped, asked |-> {"server", "regex"}, cacheN |-> cacheN, cacheC |-> cacheC]
    ELSE IF cu = "script" /\ script # NoName
    THEN [out |-> script, asked |-> {"server", "script"}, cacheN |-> cacheN, cacheC |-> cacheC]
    ELSE [out |-> Literal, asked |-> {"server"}, cacheN |-> cacheN, cacheC |-> cacheC]

\* getuser(user, client): cu is the form of perfarce.clientuser ("unset",
\* "regex" for 'pattern replacement', "script" for a single word), match
\* says whether the pattern is found in the client name, mapped is the
\* capitalised substitution, script the last line the script prints, server
\* the answer to user -o; cacheN and cacheC are the entries of usercache
\* under (user, None) and (user, client).  asked is the set of sources
\* consulted
getuser(cu, match, mapped, script, server, cacheN, cacheC) ==
    IF cacheN # NoName
    THEN [out |-> cacheN, asked |-> {}, cacheN |-> cacheN, cacheC |-> cacheC]
    ELSE IF cacheC # NoName
    THEN [out |-> cacheC, asked |-> {}, cacheN |-> cacheN, cacheC |-> cacheC]
    ELSE IF cu = "regex"
    THEN IF match
         THEN [out |-> mapped, asked |-> {"regex"}, cacheN |-> cacheN, cacheC |-> mapped]
         ELSE [out |-> Literal, asked |-> {"regex"}, cacheN |-> cacheN, cacheC |-> cacheC]
    ELSE IF cu = "script"
    THEN IF script # NoName
         THEN [out |-> script, asked |-> {"script"}, cacheN |-> cacheN, cacheC |-> script]
         ELSE [out |-> Literal, asked |-> {"script"}, cacheN |-> cacheN, cacheC |-> cacheC]
    ELSE LET r == ServerLookup(server)
         IN IF r = NoName
            THEN [out |-> Literal, asked |-> {"server"}, cacheN |-> cacheN, cacheC |-> cacheC]
            ELSE [out |-> r, asked |-> {"server"},
                  cacheN |-> IF r = "Abort" THEN cacheN ELSE r, cacheC |-> cacheC]

\* ------------------------------------------------------------------------
\* State

\* last describes the command that ran last: its options and its outcome
Blank ==
    [cmd |-> "none", res |-> "ok", force |-> FALSE, submit |-> FALSE, rev |-> << >>,
     nodes |-> << >>, use |-> 0, fault |-> "none", at |-> 0, err |-> "none",
     base |-> 0, made |-> << >>, cls |-> << >>, labs |-> {}]

\* cf holds the lists handed to the classifier and, once it ran, its result
\* and the operations issued for it
NoClassify ==
    [mod |-> << >>, add |-> << >>, rem |-> << >>, cpy |-> << >>, move |-> FALSE,
     copy |-> FALSE, done |-> FALSE, out |-> NoOps, issued |-> << >>, syncs |-> << >>]

\* call holds the arguments and the result of a helper that a specification
\* runs on its own
NoCall == [op |-> "none"]

Init ==
    /\ repo = << >>
    /\ nuser = 0
    /\ p4 = << >>
    /\ last = Blank
    /\ cf = NoClassify
    /\ view = DefaultView
    /\ call = NoCall

\* ------------------------------------------------------------------------
\* The environment: the user commits locally, another p4 user submits

\* tags is the content of .hgtags in the changeset: the labels it records,
\* each with the node it names
Changeset(p1, p2, mark, files, man, desc, tags) ==
    [p1 |-> p1, p2 |-> p2, p4 |-> mark, files |-> files, man |-> man, desc |-> desc,
     tags |-> tags]

TagsOf(r, n) == IF n = Null THEN {} ELSE r[n].tags

\* hg commit: a changeset on top of p1 that adds its own file or touches
\* only .hgtags, or (merges allowed) a merge of two heads that are not related
CommitCmd(P1, merges, max) ==
    /\ nuser < max
    /\ \E p1 \in P1,
          p2 \in {Null} \cup (IF merges THEN Nodes(repo) ELSE {}),
          hgonly \in BOOLEAN :
        LET n == Len(repo) + 1
            files == IF p2 # Null THEN {} ELSE IF hgonly THEN {HgFile} ELSE {n}
        IN /\ p2 # Null => (p1 # Null /\ ~hgonly /\ p2 \notin Anc(repo, p1) /\ p1 \notin Anc(repo, p2))
           /\ repo' = Append(repo, Changeset(p1, p2, 0, files,
                                Manifest(repo, p1) \cup Manifest(repo, p2) \cup files, <<Txt>>,
                                TagsOf(repo, p1) \cup TagsOf(repo, p2)))
    /\ nuser' = nuser + 1
    /\ last' = [Blank EXCEPT !.cmd = "commit"]
    /\ UNCHANGED <<p4, cf, view, call>>

\* a changelist submitted from another client, adding one file of its own,
\* with one of the descriptions descs
RemoteSubmitCmd(descs) ==
    /\ Len(p4) < MaxCL
    /\ \E desc \in descs :
        p4' = Append(p4, [status |-> "submitted", client |-> Other, desc |-> desc,
                         files |-> {[f |-> -(Len(p4) + 1), a |-> "A"]}, jobs |-> FALSE])
    /\ last' = [Blank EXCEPT !.cmd = "rsubmit"]
    /\ UNCHANGED <<repo, nuser, cf, view, call>>

RemoteSubmit == RemoteSubmitCmd({<<Txt>>})

\* the files of the depot at its head revision
DepotHead(s) ==
    {g \in UNION {Names(s[c].files) : c \in CLs(s)} :
        LET touching == {c \in CLs(s) : s[c].status = "submitted" /\ g \in Names(s[c].files)}
        IN touching # {} /\ [f |-> g, a |-> "R"] \notin
                               s[CHOOSE c \in touching : \A d \in touching : d <= c].files}

\* a changelist submitted from another client that deletes files of the
\* depot and may add one of its own
RemoteDelete ==
    /\ Len(p4) < MaxCL
    /\ \E D \in SUBSET DepotHead(p4), adds \in BOOLEAN :
        /\ D # {}
        /\ p4' = Append(p4, [status |-> "submitted", client |-> Other, desc |-> <<Txt>>,
                             files |-> {[f |-> g, a |-> "R"] : g \in D}
                                       \cup (IF adds THEN {[f |-> -(Len(p4) + 1), a |-> "A"]}
                                             ELSE {}),
                             jobs |-> FALSE])
    /\ last' = [Blank EXCEPT !.cmd = "rsubmit"]
    /\ UNCHANGED <<repo, nuser, cf, view, call>>

\* a node id that no changeset of the local repository has: the token of a
\* changelist that was pushed from another repository names such nodes
Foreign == -1

ForeignSubmit == RemoteSubmitCmd({<<Txt>>, <<Txt, Tok(Foreign, 0)>>})

\* ------------------------------------------------------------------------
\* outgoing and push

RevOpts(r) ==
    {<< >>} \cup {<<n>> : n \in Nodes(r)}
    \cup {<<q[1], q[2]>> : q \in {x \in Nodes(r) \X Nodes(r) : x[1] < x[2]}}

\* what last keeps of a push or outgoing: the options and the node list of
\* one that went on to the changelist, the outcome alone of the others
PushLast(cmd, pc, rev, force) ==
    IF pc.res = "ok" /\ cmd = "push"
    THEN [Blank EXCEPT !.cmd = cmd, !.force = force, !.rev = rev,
                       !.nodes = pc.nodes, !.base = pc.p4rev]
    ELSE [Blank EXCEPT !.cmd = cmd, !.res = pc.res]

\* the options a specification lets the commands run with: the values of
\* --force, of --job, of perfarce.keep, of hasmovecopy, and whether remote
\* commands report errors
Options(force, job, keep, mc, fault) ==
    [force |-> force, job |-> job, keep |-> keep, mc |-> mc, fault |-> fault,
     revs |-> "any", labels |-> FALSE, cmd |-> "pull",
     faults |-> {"describe", "fstat", "getfile", "labels", "sync", "syncwarn"}]

\* the values of --rev a specification lets push and outgoing run with
RevsOf(O, r) ==
    IF O.revs = "default" THEN {<< >>}
    ELSE IF O.revs = "single" THEN {<< >>} \cup {<<n>> : n \in Nodes(r)}
    ELSE RevOpts(r)

OutgoingCmd(O) ==
    /\ repo # << >>
    /\ LET f == find(repo, 0, TRUE, 0, mqnode)
           stat == readp4stat(repo, p4).p4stat
       IN \E rev \in RevsOf(O, repo), force \in O.force :
            last' = PushLast("outgoing", pushnodes(repo, f, stat, rev, force), rev, force)
    /\ UNCHANGED <<repo, nuser, p4, cf, view, call>>

\* revert(ui, repo, use, **opts) of the except clause: subrevcommon builds
\* its client from the configured default path, not from the destination of
\* the push; defok says whether that path names the p4 client
Rollback(s, use, defok) == IF defok THEN revertOne(s, use) ELSE s

\* the body of push once pushcommon has returned its tuple
PushBody(pc, rev, force, O) ==
    LET use0 == Reuse(p4, PendingOf(p4), noid(pc.desc), 0)
        s1 == IF use0 # 0 THEN RevertIn(p4, use0, Names(p4[use0].files)) ELSE p4
        touched == {pc.mod[i].f : i \in 1..Len(pc.mod)}
                   \cup {pc.add[i].f : i \in 1..Len(pc.add)}
                   \cup {pc.rem[i].f : i \in 1..Len(pc.rem)}
        s2 == RevertFiles(s1, touched)
        use == IF use0 # 0 THEN use0 ELSE Len(p4) + 1
        l0 == [PushLast("push", pc, rev, force) EXCEPT !.use = use]
    IN /\ use <= MaxCL
       /\ \E mc \in O.mc, submit \in BOOLEAN, keep \in O.keep, job \in O.job :
            LET ops == classify(pc.mod, pc.add, pc.rem, << >>, mc[1], mc[2])
                s3 == change(s2, use0, pc.desc, job)
                steps == Steps(ops, submit, keep)
            IN \E k \in (IF O.fault THEN 0..Len(steps) ELSE {0}) :
                 IF k = 0
                 THEN /\ p4' = RunSteps(s3, use, ops, steps, Len(steps))
                      /\ Len(p4') <= MaxCL
                      /\ last' = [l0 EXCEPT !.submit = submit,
                                            !.use = IF submit THEN Len(p4') ELSE use]
                 ELSE \E defok \in BOOLEAN :
                      LET sf == RunSteps(s3, use, ops, steps, k - 1)
                      IN /\ Len(sf) <= MaxCL
                         /\ p4' = Rollback(sf, use, defok)
                         /\ last' = [l0 EXCEPT
                                !.submit = submit, !.res = "failed", !.fault = steps[k],
                                !.use = IF k > 1 /\ steps[k - 1] = "submit" THEN Len(sf) ELSE use,
                                !.err = IF defok THEN "original" ELSE "notclient"]

PushCmd(O) ==
    /\ repo # << >>
    /\ LET f == find(repo, 0, TRUE, 0, mqnode)
           stat == readp4stat(repo, p4).p4stat
       IN \E rev \in RevsOf(O, repo), force \in O.force :
            LET pc == pushnodes(repo, f, stat, rev, force)
            IN IF pc.res # "ok"
               THEN last' = PushLast("push", pc, rev, force) /\ UNCHANGED p4
               ELSE PushBody(pc, rev, force, O)
    /\ UNCHANGED <<repo, nuser, cf, view, call>>

\* ------------------------------------------------------------------------
\* SyncEngine: pullcommon and pull

\* the changelists in the order the server lists them, most recent first
PullChangesUnsorted(s, p4id) ==
    Descending({c \in CLs(s) : s[c].status = "submitted" /\ c >= p4id /\ c # p4id})

\* lines 951-974: the submitted changelists after the correlated one, sorted
PullChanges(s, p4id) ==
    SortedSeq({c \in CLs(s) : s[c].status = "submitted" /\ c >= p4id /\ c # p4id})

\* a getfile that tries to read the content before it looks at the action
getfile_readfirst(action, broken) ==
    IF broken THEN "Abort"
    ELSE IF action = "R" THEN "IOError" ELSE "contents"

\* getfile(entry), lines 804-858: IOError for an entry whose action is R,
\* otherwise the contents, or util.Abort('file ... missing in p4
\* workspace') when anything fails while they are obtained (broken)
getfile(action, broken) ==
    IF action = "R" THEN "IOError"
    ELSE IF broken THEN "Abort" ELSE "contents"

\* a pull that commits the files of the changelist and nothing else: no
\* marker, no second parent
PullOneBare(r, s, c, p4rev) ==
    Changeset(p4rev, Null, 0, Names(s[c].files),
              Manifest(r, p4rev) \cup Names(s[c].files), s[c].desc, TagsOf(r, p4rev))

\* a pull that never records the exported node as second parent
PullOneLinear(r, s, c, p4rev) ==
    Changeset(p4rev, Null, c, Names(s[c].files),
              Manifest(r, p4rev) \cup Names(s[c].files), s[c].desc, TagsOf(r, p4rev))

\* lines 1221-1263: the changeset built for changelist c on top of p4rev
PullOne(r, s, c, p4rev) ==
    LET cl == s[c]
        nodes == parsenodes(r, cl.desc)
        parent == IF nodes # << >> THEN Last(nodes) ELSE Null
        hgfiles == IF parent # Null THEN r[parent].files \cap {HgFile} ELSE {}
        removed == {e.f : e \in {x \in cl.files : getfile(x.a, FALSE) = "IOError"}}
        entries == Names(cl.files)
    IN Changeset(p4rev, parent, c, entries \cup hgfiles,
                 ((Manifest(r, p4rev) \cup entries) \ removed) \cup hgfiles, cl.desc,
                 IF hgfiles # {} THEN TagsOf(r, parent) ELSE TagsOf(r, p4rev))

\* a sync that notes every error record and raises for none
RaisesButSync(fault) == fault \notin {"none", "syncwarn", "sync"}

\* run(abort=True) raises on an error record; sync runs with abort=False and
\* only notes an error of generic code 17 or severity 2 ("syncwarn")
Raises(fault) == fault \notin {"none", "syncwarn"}

PullSteps(keep) ==
    {"describe", "fstat", "getfile", "labels"}
    \cup (IF keep THEN {"sync", "syncwarn"} ELSE {})

\* the loop of lines 1208-1271; fault names the remote command that reports
\* an error and at the changelist at which it does
RECURSIVE PullLoop(_, _, _, _, _, _, _)
PullLoop(r, s, changes, p4rev, made, fault, at) ==
    IF changes = << >> THEN [repo |-> r, made |-> made, res |-> "ok"]
    ELSE LET c == Head(changes)
             failing == /\ at = c /\ Raises(fault)
                        /\ fault = "getfile" => \E e \in s[c].files : getfile(e.a, TRUE) = "Abort"
             r1 == Append(r, PullOne(r, s, c, p4rev))
         IN IF failing /\ fault # "labels"
            THEN [repo |-> r, made |-> made, res |-> "failed"]
            ELSE IF failing
            THEN [repo |-> r1, made |-> Append(made, Len(r1)), res |-> "failed"]
            ELSE PullLoop(r1, s, Tail(changes), Len(r1), Append(made, Len(r1)), fault, at)

\* a pull that drops the labels it collected when a changelist failed
CollectedUnlessFailed(out, labs, fault) ==
    IF out.res = "failed" THEN {}
    ELSE {[label |-> out.repo[n].p4, node |-> n] :
             n \in {m \in Range(out.made) : out.repo[m].p4 \in labs}}

\* lines 1266-1267: the labels collected from the changelists whose
\* changeset was committed and whose labels query returned; a label is named
\* by the changelist it is attached to
Collected(out, labs, fault) ==
    LET done == IF out.res = "failed" /\ fault = "labels"
                THEN SubSeq(out.made, 1, Len(out.made) - 1)
                ELSE out.made
    IN {[label |-> out.repo[n].p4, node |-> n] :
           n \in {m \in Range(done) : out.repo[m].p4 \in labs}}

\* lines 1273-1298: the changeset that records the collected labels
TagsChangeset(r, tags) ==
    LET p4rev == find(r, 0, FALSE, 0, mqnode).node
    IN Changeset(p4rev, Null, 0, {HgFile}, Manifest(r, p4rev) \cup {HgFile}, <<Txt>>,
                 (IF HgFile \in Manifest(r, p4rev) THEN TagsOf(r, p4rev) ELSE {}) \cup tags)

PullCmd(O) ==
    /\ \E force \in O.force, keep \in O.keep :
        LET f == find(repo, 0, TRUE, 0, mqnode)
            changes == PullChanges(p4, f.p4)
            l0 == [Blank EXCEPT !.cmd = O.cmd, !.force = force, !.base = f.node,
                                !.cls = changes]
        IN IF repo # << >> /\ ~f.found /\ ~force
           THEN /\ last' = [Blank EXCEPT !.cmd = O.cmd, !.res = "nochangelist"]
                /\ UNCHANGED repo
           ELSE \E fault \in {"none"} \cup (IF O.fault THEN PullSteps(keep) \cap O.faults ELSE {}) :
                \E at \in (IF fault = "none" THEN {0} ELSE Range(changes)),
                   labs \in (IF O.labels THEN SUBSET Range(changes) ELSE {{}}) :
                LET out == PullLoop(repo, p4, changes, f.node, << >>, fault, at)
                    tags == Collected(out, labs, fault)
                IN /\ repo' = IF tags = {} THEN out.repo
                              ELSE Append(out.repo, TagsChangeset(out.repo, tags))
                   /\ last' = [l0 EXCEPT !.res = out.res, !.made = out.made,
                                         !.fault = fault, !.at = at, !.labs = labs,
                                         !.err = IF out.res = "failed" /\ fault = "getfile"
                                                 THEN "missing" ELSE "none"]
    /\ UNCHANGED <<nuser, p4, cf, view, call>>

\* incoming, lines 1120-1160: lists the changelists a pull would import
IncomingCmd(O) ==
    /\ \E force \in O.force :
        LET f == find(repo, 0, TRUE, 0, mqnode)
        IN last' = IF repo # << >> /\ ~f.found /\ ~force
                   THEN [Blank EXCEPT !.cmd = "incoming", !.res = "nochangelist"]
                   ELSE [Blank EXCEPT !.cmd = "incoming", !.force = force,
                                      !.base = f.node, !.cls = PullChanges(p4, f.p4)]
    /\ UNCHANGED <<repo, nuser, p4, cf, view, call>>

\* clone, lines 1304-1376: a pull into a repository that was just created
CloneCmd(O) == repo = << >> /\ PullCmd([O EXCEPT !.cmd = "clone"])

\* ------------------------------------------------------------------------
\* p4revert and p4submit

\* subrevcommon: the changelists named on the command line, or with --all
\* the pending ones of the pending list
RECURSIVE revertAll(_, _)
revertAll(s, cs) ==
    IF cs = << >> THEN s ELSE revertAll(revertOne(s, Head(cs)), Tail(cs))

PendingEntries(r, s) ==
    LET pl == readp4stat(r, s).p4pending
    IN SelectSeq([i \in 1..Len(pl) |-> IF pl[i].submitted THEN 0 ELSE pl[i].change],
                 LAMBDA c : c # 0)

Revert ==
    /\ repo # << >>
    /\ \E cs \in {<<c>> : c \in CLs(p4)} \cup {PendingEntries(repo, p4)} :
        /\ cs # << >>
        /\ p4' = revertAll(p4, cs)
        /\ last' = [Blank EXCEPT !.cmd = "revert"]
    /\ UNCHANGED <<repo, nuser, cf, view, call>>

Submit ==
    /\ repo # << >>
    /\ \E c \in CLs(p4) :
        /\ p4[c].status = "pending"
        /\ p4' = ServerSubmit(p4, c)
        /\ Len(p4') <= MaxCL
        /\ last' = [Blank EXCEPT !.cmd = "submit", !.use = Len(p4')]
    /\ UNCHANGED <<repo, nuser, cf, view, call>>

\* ------------------------------------------------------------------------
\* Specifications

\* the bridge in normal operation: no --force, no --job, the workspace kept,
\* move and copy supported, and a server that reports no error
Normal == Options({FALSE}, {FALSE}, {TRUE}, {<<TRUE, TRUE>>}, FALSE)

Push == PushCmd(Normal)
Pull == PullCmd(Normal)

Commit == CommitCmd(IF repo = << >> THEN {Null} ELSE Nodes(repo), TRUE, MaxCommits)

Next == Commit \/ RemoteSubmit \/ Push \/ Pull \/ Revert \/ Submit

Spec == Init /\ [][Next]_vars

\* a linear local history on top of what was pulled
CommitTip(max) == repo # << >> /\ CommitCmd({Tip(repo)}, FALSE, max)

\* pull from a server whose commands may report errors
PullFaults == Options({FALSE}, {FALSE}, BOOLEAN, {<<TRUE, TRUE>>}, TRUE)

PullF == PullCmd(PullFaults)

NextPull == CommitTip(MaxTipCommits) \/ RemoteSubmit \/ Push \/ PullF

SpecPull == Init /\ [][NextPull]_vars

\* pull of changelists that add and delete files, with a workspace or a
\* server that may fail to deliver contents
FetchPull == PullCmd([PullFaults EXCEPT !.faults = {"getfile"}])

NextFetch == RemoteSubmit \/ RemoteDelete \/ FetchPull

SpecFetch == Init /\ [][NextFetch]_vars

\* push to a server whose commands may report errors, with and without
\* --job and perfarce.keep
PushFaults == Options({FALSE}, BOOLEAN, BOOLEAN, {<<TRUE, TRUE>>}, TRUE)

PushF == PushCmd(PushFaults)

NextPush == CommitTip(MaxTipCommits) \/ RemoteSubmit \/ PushF \/ Pull

SpecPush == Init /\ [][NextPush]_vars

\* the everyday round trip: a linear local history, push of the default
\* range with or without --force, changelists of other clients that may
\* carry the token of another repository, and pull
FlowPush == PushCmd([Normal EXCEPT !.revs = "default", !.force = BOOLEAN])

\* a linear local history that may start in an empty repository
CommitLine == CommitCmd(IF repo = << >> THEN {Null} ELSE {Tip(repo)}, FALSE, MaxCommits)

NextFlow == CommitLine \/ ForeignSubmit \/ FlowPush \/ Pull

SpecFlow == Init /\ [][NextFlow]_vars

\* push and outgoing of a linear history, without --rev or with one revision
RangePush == PushCmd([Normal EXCEPT !.revs = "single"])

Outgoing == OutgoingCmd([Normal EXCEPT !.revs = "single"])

NextRange ==
    CommitTip(MaxTipCommits) \/ RemoteSubmit \/ RangePush \/ Outgoing \/ Pull

SpecRange == Init /\ [][NextRange]_vars

\* pull of changelists that may carry labels, from a server whose describe
\* and labels commands may report errors
TagsPull ==
    PullCmd([Normal EXCEPT !.labels = TRUE, !.fault = TRUE, !.faults = {"describe", "labels"}])

NextTags == CommitTip(MaxTipCommits) \/ RemoteSubmit \/ TagsPull

SpecTags == Init /\ [][NextTags]_vars

\* the commands given any path and any answer of the server to client -o
PathPieces == {"p4:", "/", "x"}

Paths == UNION {[1..n -> PathPieces] : n \in 0..MaxPath}

Views == {View(path, "spec", TRUE) : path \in Paths}
         \cup {View(path, reply, FALSE) :
                  path \in Paths, reply \in {"none", "many", "error", "spec"}}

\* a wrapper that falls back to the original command for every exception
\* of the constructor
FallbackAlways(res) == "original"

\* what a wrapped command does with the outcome of the constructor
\* (pullcommon 929-937, pushcommon 986-993, clone 1307-1313): the original
\* command of the host for p4notclient, an abort for p4badclient; any other
\* exception leaves the command as it is
Fallback(res) ==
    CASE res = "p4notclient" -> "original"
      [] res = "p4badclient" -> "abort"
      [] OTHER -> res

\* a wrapped command: Run is what the command does with a client object.
\* An object built without a client name (lines 229, 259-261 skipped) makes
\* p4 use whatever client its environment names: the command may act on it
\* or fail
ClientCmd(cmd, Run) ==
    LET o == p4client_init(view.path, view.reply, view.isdir)
    IN IF o.res = "view" /\ o.root THEN Run
       ELSE \/ o.res = "view" /\ Run
            \/ /\ last' = [Blank EXCEPT !.cmd = cmd,
                                         !.res = IF o.res = "view" THEN "failed"
                                                 ELSE Fallback(o.res)]
               /\ UNCHANGED <<repo, nuser, p4, cf, view, call>>

\* the server holds one changelist that another client submitted
InitClient ==
    /\ repo = << >>
    /\ nuser = 0
    /\ p4 = <<[status |-> "submitted", client |-> Other, desc |-> <<Txt>>,
               files |-> {[f |-> -1, a |-> "A"]}, jobs |-> FALSE]>>
    /\ last = Blank
    /\ cf = NoClassify
    /\ view \in Views
    /\ call = NoCall

NextClient ==
    \/ ClientCmd("pull", Pull)
    \/ ClientCmd("incoming", IncomingCmd(Normal))
    \/ ClientCmd("clone", CloneCmd(Normal))
    \/ ClientCmd("push", Push)
    \/ ClientCmd("outgoing", OutgoingCmd(Normal))

SpecClient == InitClient /\ [][NextClient]_vars

\* pushcommon on its own: a linear history on top of a pulled changeset, in
\* which a changeset adds its own file and may delete the file its parent
\* added, with any pending membership and any --rev
RECURSIVE Chain(_, _)
Chain(k, dels) ==
    IF k = 1 THEN <<Changeset(Null, Null, 1, {-1}, {-1}, <<Txt>>, {})>>
    ELSE LET r == Chain(k - 1, dels)
             gone == IF k \in dels THEN {k - 1} ELSE {}
         IN Append(r, Changeset(k - 1, Null, 0, {k} \cup gone,
                                (r[k - 1].man \cup {k}) \ gone, <<Txt>>, {}))

TrimCall(stat, rev, out, done) ==
    [op |-> "pushcommon", stat |-> stat, rev |-> rev, out |-> out, done |-> done]

InitTrim ==
    /\ \E dels \in SUBSET (3..MaxChain) : repo = Chain(MaxChain, dels)
    /\ nuser = 0
    /\ p4 = << >>
    /\ last = Blank
    /\ cf = NoClassify
    /\ view = DefaultView
    /\ call \in {TrimCall(stat, rev, << >>, FALSE) :
                   stat \in SUBSET (2..MaxChain), rev \in RevOpts(Chain(MaxChain, {}))}

\* outgoing without --force, up to the tuple that pushcommon returns
PushCommon ==
    /\ call.op = "pushcommon" /\ ~call.done
    /\ call' = TrimCall(call.stat, call.rev,
                        pushnodes(repo, find(repo, 0, TRUE, 0, mqnode), call.stat,
                                  call.rev, FALSE),
                        TRUE)
    /\ UNCHANGED <<repo, nuser, p4, last, cf, view>>

SpecTrim == InitTrim /\ [][PushCommon]_vars

----------------------------------------------------------------------------
\* p4client.run (lines 449-488)

\* the records of p4 -G: stat records carry no data, info, text and error
\* records carry the server's message
Records ==
    {[code |-> "stat", data |-> "None"]}
    \cup {[code |-> c, data |-> m] : c \in {"info", "error"}, m \in {"m1", "m2"}}

RECURSIVE Streams(_)
Streams(n) ==
    IF n = 0 THEN {<< >>}
    ELSE Streams(n - 1)
         \cup {Append(st, d) : st \in {x \in Streams(n - 1) : Len(x) = n - 1}, d \in Records}

\* a run that yields every record
RaisesNever(d, abort) == FALSE

\* lines 480-485: the record that ends the command with util.Abort
RaisesAbort(d, abort) ==
    /\ d.code # "None" /\ d.data # "None"
    /\ abort /\ d.code = "error"

RunCall(stream, abort, at, out, raised) ==
    [op |-> "run", stream |-> stream, abort |-> abort, at |-> at, out |-> out,
     raised |-> raised]

InitRun ==
    /\ repo = << >>
    /\ nuser = 0
    /\ p4 = << >>
    /\ last = Blank
    /\ cf = NoClassify
    /\ view = DefaultView
    /\ call \in {RunCall(st, abort, 1, << >>, "None") :
                   st \in Streams(MaxRecords), abort \in BOOLEAN}

\* lines 478-487: the caller takes the next record of the generator
RunNext ==
    /\ call.op = "run" /\ call.raised = "None" /\ call.at <= Len(call.stream)
    /\ LET d == call.stream[call.at]
       IN IF RaisesAbort(d, call.abort)
          THEN call' = [call EXCEPT !.raised = d.data]
          ELSE call' = [call EXCEPT !.out = Append(@, d), !.at = @ + 1]
    /\ UNCHANGED <<repo, nuser, p4, last, cf, view>>

SpecRun == InitRun /\ [][RunNext]_vars

----------------------------------------------------------------------------
\* p4client.actions, describe and fstat (lines 666-760)

\* the action words of a Perforce server (describe action<n>, fstat headAction)
ServerActions ==
    {"add", "edit", "delete", "branch", "integrate", "move/add", "move/delete",
     "import", "purge", "archive"}

\* actions[ac]: the dictionary lookup raises KeyError for a missing key
actions(ac) ==
    IF ac \in {"add", "branch", "move/add", "import"} THEN "A"
    ELSE IF ac \in {"edit", "integrate"} THEN "M"
    ELSE IF ac \in {"delete", "move/delete", "purge"} THEN "R"
    ELSE "KeyError"

\* the loops of describe (lines 696-707) and fstat (lines 745-760) over the
\* files of a reply: the entries built, up to the lookup that raises
RECURSIVE FileEntries(_, _)
FileEntries(acs, out) ==
    IF acs = << >> THEN [files |-> out, err |-> "none"]
    ELSE IF actions(Head(acs)) = "KeyError" THEN [files |-> out, err |-> "KeyError"]
    ELSE FileEntries(Tail(acs), Append(out, [ac |-> Head(acs), a |-> actions(Head(acs))]))

InitDescribe ==
    /\ repo = << >>
    /\ nuser = 0
    /\ p4 = << >>
    /\ last = Blank
    /\ cf = NoClassify
    /\ view = DefaultView
    /\ call = [op |-> "describe", reply |-> << >>, local |-> FALSE, done |-> FALSE,
               out |-> [files |-> << >>, err |-> "none"]]

\* the server reports one more file of the changelist
Reply ==
    /\ call.op = "describe" /\ ~call.done /\ Len(call.reply) < MaxFiles
    /\ \E ac \in ServerActions : call' = [call EXCEPT !.reply = Append(@, ac)]
    /\ UNCHANGED <<repo, nuser, p4, last, cf, view>>

\* describe(change, local): through fstat when local, else from the reply
Describe ==
    /\ call.op = "describe" /\ ~call.done
    /\ \E local \in BOOLEAN :
         call' = [call EXCEPT !.done = TRUE, !.local = local,
                              !.out = FileEntries(call.reply, << >>)]
    /\ UNCHANGED <<repo, nuser, p4, last, cf, view>>

SpecDescribe == InitDescribe /\ [][Reply \/ Describe]_vars

----------------------------------------------------------------------------
\* The pending tracker of one p4client object (lines 223-224, 509-547)

\* p4stat is None
NoStat == [built |-> FALSE, p4stat |-> {}, p4pending |-> << >>]

Tracker(t) == [built |-> TRUE, p4stat |-> t.p4stat, p4pending |-> t.p4pending]

InitTracker ==
    /\ repo = Chain(3, {})
    /\ nuser = 0
    /\ \E who \in {Client, Other} :
         p4 = <<[status |-> "submitted", client |-> who, desc |-> <<Txt>>,
                 files |-> {[f |-> -1, a |-> "A"]}, jobs |-> FALSE]>>
    /\ last = Blank
    /\ cf = NoClassify
    /\ view = DefaultView
    /\ call = [op |-> "client", cache |-> NoStat, got |-> NoStat, did |-> "init"]

\* getpending, getpendinglist: the tracker is read when p4stat is None
GetPending ==
    /\ call.op = "client"
    /\ LET t == IF call.cache.built THEN call.cache ELSE Tracker(readp4stat(repo, p4))
       IN call' = [call EXCEPT !.cache = t, !.got = t, !.did = "query"]
    /\ UNCHANGED <<repo, nuser, p4, last, cf, view>>

\* p4client.change: a changelist is created or updated, the cache invalidated
ClientChange ==
    /\ call.op = "client"
    /\ \E use \in {0} \cup {c \in CLs(p4) : p4[c].status = "pending"},
          desc \in {<<Txt, Tok(2, 0)>>, <<Txt, Tok(2, 3)>>} :
         /\ p4' = change(p4, use, desc, FALSE)
         /\ Len(p4') <= MaxCL
    /\ call' = [call EXCEPT !.cache = NoStat, !.did = "change"]
    /\ UNCHANGED <<repo, nuser, last, cf, view>>

\* p4client.submit: the changelist is submitted, the cache invalidated
ClientSubmit ==
    /\ call.op = "client"
    /\ \E c \in {c \in CLs(p4) : p4[c].status = "pending"} :
         /\ p4' = ServerSubmit(p4, c)
         /\ Len(p4') <= MaxCL
    /\ call' = [call EXCEPT !.cache = NoStat, !.did = "submit"]
    /\ UNCHANGED <<repo, nuser, last, cf, view>>

\* revert of one changelist (lines 1621-1642): the files are reverted and
\* the changelist deleted through client.runs; p4stat is left as it is
ClientDelete ==
    /\ call.op = "client"
    /\ \E c \in {c \in CLs(p4) : p4[c].status = "pending"} :
         p4' = revertOne(p4, c)
    /\ call' = [call EXCEPT !.did = "delete"]
    /\ UNCHANGED <<repo, nuser, last, cf, view>>

NextTracker == GetPending \/ ClientChange \/ ClientSubmit \/ ClientDelete

SpecTracker == InitTracker /\ [][NextTracker]_vars

----------------------------------------------------------------------------
\* p4client.find on histories with merges and a patch queue

\* the changesets that can follow history r: a pulled changelist (marked
\* with its id), a commit of .hg* files only, or a commit of a file
Commits(r) ==
    LET k == Len(r) + 1
        P == IF k = 1 THEN {Null} ELSE Nodes(r)
    IN {Changeset(p, Null, k, {-k}, {}, <<Txt>>, {}) : p \in P}
       \cup {Changeset(p, Null, 0, {HgFile}, {}, <<Txt>>, {}) : p \in P}
       \cup {Changeset(p, Null, 0, {k}, {}, <<Txt>>, {}) : p \in P}

Heads(r) == {n \in Nodes(r) : Children(r, n) = {}}

\* the changesets of the patch queue whose first patch is q
Queue(r, q) == IF q = Null THEN {} ELSE {n \in Nodes(r) : q \in Anc(r, n)}

\* repo['qbase']: no patch queue, or a queue of unmarked commits
QBases(r) ==
    {Null} \cup {q \in Nodes(r) : \A n \in Queue(r, q) : r[n].p4 = 0 /\ r[n].p2 = Null}

\* find along first parents only
find_firstparent(r, rev, base, abort, mq) ==
    LET RECURSIVE Up(_)
        Up(n) == IF n = Null
                 THEN [node |-> Null, p4 |-> 0, found |-> FALSE,
                       err |-> IF abort THEN "Abort" ELSE "none"]
                 ELSE IF r[n].p4 # 0
                      THEN [node |-> n, p4 |-> r[n].p4, found |-> TRUE, err |-> "none"]
                      ELSE Up(r[n].p1)
    IN Up(IF rev = 0 THEN Tip(r) ELSE rev)

\* find(rev, base, abort=abort): the node and changelist id, or util.Abort
\* when nothing is found and abort is set (lines 333-335)
find_abort(r, rev, base, abort, mq) ==
    LET f == find(r, rev, base, 0, mq)
    IN IF ~f.found /\ abort THEN [node |-> Null, p4 |-> 0, found |-> FALSE, err |-> "Abort"]
       ELSE [node |-> f.node, p4 |-> f.p4, found |-> f.found, err |-> "none"]

FindCall(base, abort, mq, out, done) ==
    [op |-> "find", base |-> base, abort |-> abort, mq |-> mq, out |-> out,
     done |-> done]

InitFind ==
    /\ repo = << >>
    /\ nuser = 0
    /\ p4 = << >>
    /\ last = Blank
    /\ cf = NoClassify
    /\ view = DefaultView
    /\ call = NoCall

\* a pull or a commit adds a changeset; the history keeps at most two heads
Extend ==
    /\ call = NoCall /\ Len(repo) < MaxHist
    /\ \E cs \in Commits(repo) :
         /\ Cardinality(Heads(Append(repo, cs))) <= 2
         /\ repo' = Append(repo, cs)
    /\ UNCHANGED <<nuser, p4, last, cf, view, call>>

\* hg merge of the two heads: a changeset without files
MergeHeads ==
    /\ call = NoCall /\ Len(repo) < MaxHist
    /\ \E a \in Heads(repo), b \in Heads(repo) :
         /\ a # b
         /\ repo' = Append(repo, Changeset(a, b, 0, {}, {}, <<Txt>>, {}))
    /\ UNCHANGED <<nuser, p4, last, cf, view, call>>

\* find from the tip of the default branch
Find ==
    /\ call = NoCall /\ repo # << >>
    /\ \E base \in BOOLEAN, abort \in BOOLEAN, mq \in QBases(repo) :
         call' = FindCall(base, abort, mq,
                          find_abort(repo, 0, base, abort, mq), TRUE)
    /\ UNCHANGED <<repo, nuser, p4, last, cf, view>>

NextFind == Extend \/ MergeHeads \/ Find

SpecFind == InitFind /\ [][NextFind]_vars

\* identify --changelist (lines 1698-1704): find from the tip of the default
\* branch the changeset of changelist p4rev
FindRev ==
    /\ call = NoCall /\ repo # << >>
    /\ \E base \in BOOLEAN, p4rev \in {repo[n].p4 : n \in Nodes(repo)} \ {0} :
         call' = [op |-> "findrev", base |-> base, p4rev |-> p4rev,
                  out |-> find(repo, 0, base, p4rev, Null)]
    /\ UNCHANGED <<repo, nuser, p4, last, cf, view>>

SpecFindRev == InitFind /\ [][Extend \/ MergeHeads \/ FindRev]_vars

\* getuser on its own: one configuration, any answers of the pattern, of the
\* script and of the server, through several calls of one command
Mapped == "Client Name"
Scripted == "script output"

UserCall(cu, match, mapped, script, server, r) ==
    [op |-> "getuser", cu |-> cu, match |-> match, mapped |-> mapped, script |-> script,
     server |-> server, out |-> r.out, asked |-> r.asked,
     cacheN |-> r.cacheN, cacheC |-> r.cacheC, done |-> r.asked # {} \/ r.out # NoName]

NoResult == [out |-> NoName, asked |-> {}, cacheN |-> NoName, cacheC |-> NoName]

InitUser ==
    /\ repo = << >>
    /\ nuser = 0
    /\ p4 = << >>
    /\ last = Blank
    /\ cf = NoClassify
    /\ view = DefaultView
    /\ call \in {UserCall(cu, FALSE, NoName, NoName, "template", NoResult) :
                   cu \in {"unset", "regex", "script"}}

GetUser ==
    /\ call.op = "getuser"
    /\ \E match \in BOOLEAN, mapped \in {NoName, Mapped}, script \in {NoName, Scripted},
          server \in {"full", "template", "partial", "none"} :
        call' = UserCall(call.cu, match, mapped, script, server,
                         getuser(call.cu, match, mapped, script, server,
                                 call.cacheN, call.cacheC))
    /\ UNCHANGED <<repo, nuser, p4, last, cf, view>>

SpecUser == InitUser /\ [][GetUser]_vars

\* the classifier on its own: the lists pushcommon can hand over.  add and rem
\* are disjoint and sorted, mod is empty or holds every other file, and
\* pathcopies maps added files to files of the first context
CFiles == 1..MaxFiles

CpyMaps(A) == UNION {[D -> [src : CFiles \ A, chg : BOOLEAN]] : D \in SUBSET A}

ClassifyInput(M, A, R, c, move, copy) ==
    [mod |-> Entries(M), add |-> Entries(A), rem |-> Entries(R), cpy |-> c,
     move |-> move, copy |-> copy, done |-> FALSE, out |-> NoOps, issued |-> << >>,
     syncs |-> << >>]

ClassifyInputs ==
    UNION {UNION {{ClassifyInput(M, A, R, c, mc[1], mc[2]) :
                      M \in {{}, CFiles \ (A \cup R)}, c \in CpyMaps(A),
                      mc \in BOOLEAN \X BOOLEAN} :
                  R \in SUBSET (CFiles \ A)} :
           A \in SUBSET CFiles}

InitClassify ==
    /\ repo = << >>
    /\ nuser = 0
    /\ p4 = << >>
    /\ last = Blank
    /\ cf \in ClassifyInputs
    /\ view = DefaultView
    /\ call = NoCall

\* lines 1414-1423, 1452-1478 and 1521-1571: the workspace is synced, the
\* lists are classified and the operations are issued, with or without
\* --submit and perfarce.keep
Classify ==
    /\ ~cf.done
    /\ \E submit \in BOOLEAN, keep \in BOOLEAN :
        LET ops == classify(cf.mod, cf.add, cf.rem, cf.cpy, cf.move, cf.copy)
        IN cf' = [cf EXCEPT !.done = TRUE, !.out = ops,
                            !.issued = Steps(ops, submit, keep),
                            !.syncs = PushSyncs(keep, 1, cf.mod)]
    /\ UNCHANGED <<repo, nuser, p4, last, view, call>>

SpecClassify == InitClassify /\ [][Classify]_vars

\* ------------------------------------------------------------------------
\* Properties

PushRan == last.cmd = "push" /\ last.nodes # << >>

\* C1: a push without --force exports no node that already carries the p4
\* marker and no node of the pending tracker's membership, whether the range
\* is the default one or given with --rev
C1_ExportsOnlyNewNodes ==
    [][(last'.cmd = "push" /\ ~last'.force)
        => \A n \in Range(last'.nodes) :
              repo[n].p4 = 0 /\ n \notin readp4stat(repo, p4).p4stat]_vars

\* the changelists of the client that still exist
ClientCLs(s) == {c \in CLs(s) : s[c].client = Client /\ s[c].status # "deleted"}

TokenNodes(r, s, c) == Range(parsenodes(r, s[c].desc))

\* every node between two nodes of ns is in ns
Contiguous(r, ns) ==
    \A x \in ns, z \in ns, y \in Nodes(r) :
        (x \in Anc(r, y) /\ y \in Anc(r, z)) => y \in ns

\* C2: without --force, the token of every changelist of the client names a
\* contiguous range of the local history and the node sets of two different
\* changelists share no node
C2_RangesContiguousAndDisjoint ==
    \A c \in ClientCLs(p4) :
        /\ Contiguous(repo, TokenNodes(repo, p4, c))
        /\ \A d \in ClientCLs(p4) :
              c # d => TokenNodes(repo, p4, c) \cap TokenNodes(repo, p4, d) = {}

\* C3: when a step of push fails after the changelist was created or chosen,
\* the files opened in it are reverted, its job fixes are removed, the
\* changelist is deleted and the error of the failed step is the one raised
C3_FailedPushRolledBack ==
    (last.cmd = "push" /\ last.res = "failed")
        => /\ last.err = "original"
           /\ p4[last.use].status = "deleted"
           /\ p4[last.use].files = {}
           /\ ~p4[last.use].jobs

\* C4: right after a push of a range that ended with a successful submit, a
\* push or outgoing of the same range finds every node represented and
\* reports no changes, so that no changelist is created or modified
C4_RepushFindsNothing ==
    (PushRan /\ last.res = "ok" /\ last.submit)
        => LET again == pushcommon(repo, p4, last.rev, FALSE)
           IN again.res = "nochanges" /\ again.nodes = << >>

\* C5: a pull creates one changeset per new changelist, in ascending
\* changelist order, each the first-parent child of the one before it, the
\* first one the first-parent child of the correlated base node
C5_PullBuildsChain ==
    [][(last'.cmd = "pull" /\ last'.res = "ok")
        => LET changes == SortedSeq({c \in CLs(p4) :
                              p4[c].status = "submitted"
                              /\ c > find(repo, 0, TRUE, 0, mqnode).p4})
               base == find(repo, 0, TRUE, 0, mqnode).node
           IN /\ Len(repo') = Len(repo) + Len(changes)
              /\ SubSeq(repo', 1, Len(repo)) = repo
              /\ \A i \in 1..Len(changes) :
                    /\ repo'[Len(repo) + i].p4 = changes[i]
                    /\ repo'[Len(repo) + i].p1 = IF i = 1 THEN base ELSE Len(repo) + i - 1]_vars

C5_Witness ==
    /\ last.cmd = "pull" /\ last.res = "ok"
    /\ Len(last.made) = 3

\* C6: the description push builds parses back, through the tracker's
\* parser, to exactly the list of exported nodes
C6_TokenRoundTrip ==
    PushRan => parsenodes(repo, MakeDesc(repo, last.nodes)) = last.nodes

\* the files of a list of entries
FilesIn(es) == {es[i].f : i \in 1..Len(es)}

\* the added files with a copy source in the removed list, in list order
MoveCandidates == {i \in 1..Len(cf.add) :
                      /\ cf.add[i].f \in DOMAIN cf.cpy
                      /\ cf.cpy[cf.add[i].f].src \in FilesIn(cf.rem)}

MovesFrom(r) == {j \in 1..Len(cf.out.moves) : cf.out.moves[j].src = r}

\* the file add[i] is moved from its source, by the only move of that source
MovedOnce(i) ==
    LET f == cf.add[i].f
        r == cf.cpy[f].src
    IN /\ Cardinality(MovesFrom(r)) = 1
       /\ \A j \in MovesFrom(r) : cf.out.moves[j].f = f
       /\ r \notin FilesIn(cf.out.rem)
       /\ \A j \in 1..Len(cf.out.copies) : cf.out.copies[j].f # f
       /\ \A j \in 1..Len(cf.out.ntg) : cf.out.ntg[j].f # f

\* C7 as stated: with move on, every added file whose copy source is in the
\* removed list gets the one move of that source, the source leaves the
\* remove list, and the file gets no copy and no integrate
C7_EveryCandidateMoved ==
    (cf.done /\ cf.move) => \A i \in MoveCandidates : MovedOnce(i)

FirstOfSource(i) ==
    \A j \in MoveCandidates : cf.cpy[cf.add[j].f].src = cf.cpy[cf.add[i].f].src => i <= j

\* C7: with move on, of the added files copied from one removed source the
\* first in list order gets the one move of that source, the source leaves
\* the remove list, and that file gets no copy and no integrate
C7_FirstCandidateMoved ==
    (cf.done /\ cf.move) =>
        \A i \in MoveCandidates : FirstOfSource(i) => MovedOnce(i)

C7_Witness ==
    /\ cf.done /\ cf.move
    /\ \E i \in MoveCandidates, j \in MoveCandidates :
          i < j /\ cf.cpy[cf.add[i].f].src = cf.cpy[cf.add[j].f].src

\* the added files with a copy source that is not in the removed list
CopyCandidates == {i \in 1..Len(cf.add) :
                      /\ cf.add[i].f \in DOMAIN cf.cpy
                      /\ cf.cpy[cf.add[i].f].src \notin FilesIn(cf.rem)}

\* C8: with copy on, an added file whose copy source is not removed gets
\* exactly one copy from that source and no move, and the final remove list
\* holds the source only if the remove list handed in did
C8_CopyOfKeptSource ==
    (cf.done /\ cf.copy) =>
        \A i \in CopyCandidates :
            LET f == cf.add[i].f
                r == cf.cpy[f].src
            IN /\ Cardinality({j \in 1..Len(cf.out.copies) : cf.out.copies[j].f = f}) = 1
               /\ \A j \in 1..Len(cf.out.copies) :
                     cf.out.copies[j].f = f => cf.out.copies[j].src = r
               /\ \A j \in 1..Len(cf.out.moves) : cf.out.moves[j].f # f
               /\ r \in FilesIn(cf.out.rem) => r \in FilesIn(cf.rem)

C8_Witness ==
    /\ cf.done /\ cf.copy /\ cf.move
    /\ CopyCandidates # {}
    /\ cf.rem # << >>

\* the nodes of the correlated base changelist: the changeset that carries
\* its number and the nodes its description names
BaseNodes(r, s) ==
    LET p4id == find(r, 0, FALSE, 0, mqnode).p4
    IN IF p4id = 0 THEN {}
       ELSE {n \in Nodes(r) : r[n].p4 = p4id}
            \cup (IF p4id \in CLs(s) THEN TokenNodes(r, s, p4id) ELSE {})

\* C9: the membership set of the pending tracker holds no node of the
\* currently correlated base changelist, whatever the other changelists name
C9_BaseNodesNotPending ==
    readp4stat(repo, p4).p4stat \cap BaseNodes(repo, p4) = {}

\* a pull step that met an error at changelist last'.at stops there: it
\* fails, and adds no changeset for that changelist or a later one
PullStops ==
    /\ last'.res = "failed"
    /\ Len(repo') >= Len(repo)
    /\ \A n \in (Len(repo) + 1)..Len(repo') : repo'[n].p4 < last'.at

\* C10 as stated: an error reported by describe, fstat, sync or the content
\* fetch for changelist c aborts the pull: no later changelist is processed
\* and no changeset with the marker c is created
C10_AnyErrorAborts ==
    [][(last'.cmd = "pull"
        /\ last'.fault \in {"describe", "fstat", "sync", "syncwarn", "getfile"})
        => PullStops]_vars

\* C10: an error reported by describe, fstat or the content fetch, or an
\* error of sync that is neither of generic code 17 nor of severity 2, aborts
\* the pull: no later changelist is processed and no changeset with the
\* marker c is created
C10_RaisedErrorAborts ==
    [][(last'.cmd = "pull" /\ last'.fault \in {"describe", "fstat", "sync", "getfile"})
        => PullStops]_vars

C10_Witness ==
    /\ last.cmd = "pull" /\ last.fault = "sync" /\ last.res = "failed"
    /\ last.made # << >>

\* the submitted changelists a pull finds above the correlated one
NewChanges == {c \in CLs(p4) : p4[c].status = "submitted"
                              /\ c > find(repo, 0, TRUE, 0, mqnode).p4}

\* a pull step that ended well and had exactly one changelist to import
PulledOne == last'.cmd = "pull" /\ last'.res = "ok" /\ Cardinality(NewChanges) = 1

\* the .hg* files that the last node named by the description of c touches
TokenHgFiles(c) ==
    LET ns == parsenodes(repo, p4[c].desc)
    IN IF ns = << >> THEN {} ELSE repo[Last(ns)].files \cap {HgFile}

\* the one new changeset has the description and the number of c and sits
\* on the node that was correlated before the pull
PulledOnBase(c) ==
    /\ Len(repo') = Len(repo) + 1
    /\ repo'[Len(repo) + 1].desc = p4[c].desc
    /\ repo'[Len(repo) + 1].p4 = c
    /\ repo'[Len(repo) + 1].p1 = find(repo, 0, TRUE, 0, mqnode).node

FirstPush ==
    /\ last'.cmd = "push" /\ ~last'.submit
    /\ p4 = << >>
    /\ Cardinality(Manifest(repo, Tip(repo)) \ {HgFile}) = 1

\* the server holds one changelist, pending, with one Add for the file of
\* the history and a description that names the tip
OnePendingAdd ==
    /\ Len(p4') = 1
    /\ p4'[1].status = "pending" /\ p4'[1].client = Client
    /\ p4'[1].files = {[f |-> g, a |-> "A"] : g \in Manifest(repo, Tip(repo)) \ {HgFile}}
    /\ Tip(repo) \in Range(parsenodes(repo, p4'[1].desc))

TokenLast(desc) ==
    LET m == re_hgid_search(desc)
    IN IF m = 0 THEN Null
       ELSE IF desc[m].a \notin Nodes(repo) THEN Null
       ELSE IF desc[m].b = 0 THEN desc[m].a
       ELSE IF desc[m].b \in Nodes(repo) THEN desc[m].b ELSE Null

\* C13: the changeset a pull creates for a changelist has as first parent
\* the previously correlated node and as second parent the last node of the
\* range embedded in the description of the changelist; it has no second
\* parent when the description embeds no token that resolves to local nodes
C13_MergeOnEmbeddedToken ==
    [][(last'.cmd = "pull" /\ last'.res = "ok") =>
        \A n \in (Len(repo) + 1)..Len(repo') :
            /\ repo'[n].p1 = IF n = Len(repo) + 1
                             THEN find(repo, 0, TRUE, 0, mqnode).node ELSE n - 1
            /\ repo'[n].p2 = TokenLast(p4[repo'[n].p4].desc)]_vars

C13_Witness ==
    /\ last.cmd = "pull" /\ last.res = "ok"
    /\ \E n \in Range(last.made) : repo[n].p2 # Null
    /\ \E n \in Range(last.made) :
         /\ repo[n].p2 = Null
         /\ re_hgid_search(p4[repo[n].p4].desc) # 0

\* the changesets a pull step committed for changelists
Pulled == {n \in (Len(repo) + 1)..Len(repo') : repo'[n].p4 # 0}

\* those of them whose changelist carries a label that the labels query
\* returned
Labelled == {n \in Pulled : /\ repo'[n].p4 \in last'.labs
                            /\ ~(last'.fault = "labels" /\ last'.at = repo'[n].p4)}

\* C14: if a pull collected at least one label, exactly one further
\* changeset is committed after the changesets of the processed changelists:
\* it changes only .hgtags, carries no marker, is a child of the most recent
\* correlated changeset and records every collected label; this also holds
\* when a later changelist of the run failed.  A pull that collected no label
\* commits no such changeset
C14_OneTagsChangeset ==
    [][last'.cmd = "pull" =>
        IF Labelled = {}
        THEN Len(repo') = Len(repo) + Cardinality(Pulled)
        ELSE /\ Len(repo') = Len(repo) + Cardinality(Pulled) + 1
             /\ Pulled = (Len(repo) + 1)..(Len(repo') - 1)
             /\ repo'[Len(repo')].files = {HgFile}
             /\ repo'[Len(repo')].p4 = 0
             /\ repo'[Len(repo')].p1 = Len(repo') - 1
             /\ repo'[Len(repo')].p2 = Null
             /\ \A n \in Labelled :
                  [label |-> repo'[n].p4, node |-> n] \in repo'[Len(repo')].tags]_vars

C14_Witness ==
    /\ last.cmd = "pull" /\ last.res = "failed"
    /\ last.made # << >>
    /\ repo[Len(repo)].p4 = 0
    /\ repo[Len(repo)].files = {HgFile}
    /\ repo[Len(repo)].p1 = Last(last.made)
    /\ repo[Len(repo)].tags # {}

\* the descendants of node n
Descendants(r, n) == {d \in Nodes(r) \ {n} : n \in Anc(r, d)}

\* the nodes that some changelist of the client names in its description
Represented == UNION {TokenNodes(repo, p4, c) : c \in ClientCLs(p4)}

\* C15: a push without --force exports no node that is already pending or
\* represented remotely and no node that has a descendant carrying the
\* remote marker, and a push that aborts with the already-exported error
\* leaves every changelist as it was
C15_NoExportOfExportedNodes ==
    [][/\ (last'.cmd = "push" /\ ~last'.force /\ last'.res \in {"ok", "failed"}) =>
            \A n \in Range(last'.nodes) :
                /\ n \notin Represented
                /\ \A d \in Descendants(repo, n) : repo[d].p4 = 0
       /\ (last'.cmd = "push" /\ last'.res = "alreadyinp4") => p4' = p4]_vars

\* the classes of remote operations in the order the push is to issue them
ClassOrder == <<"copy", "move", "integrate", "edit", "write", "add", "delete", "submit">>

Rank(step) == CHOOSE i \in 1..Len(ClassOrder) : ClassOrder[i] = step

\* the operations of these classes among the issued ones
IssuedOps == SelectSeq(cf.issued, LAMBDA st : st \in Range(ClassOrder))

\* C16: within one push the copies are issued first, then the moves, the
\* integrates, the edits, the writes of content, the adds, the deletes and
\* last the optional submit: no operation of a later class precedes one of
\* an earlier class, and a class is issued exactly when the classifier
\* produced operations for it
C16_OperationsInClassOrder ==
    cf.done =>
        /\ \A i \in 1..Len(IssuedOps), j \in 1..Len(IssuedOps) :
              i < j => Rank(IssuedOps[i]) < Rank(IssuedOps[j])
        /\ "copy" \in Range(IssuedOps) <=> cf.out.copies # << >>
        /\ "move" \in Range(IssuedOps) <=> cf.out.moves # << >>
        /\ "integrate" \in Range(IssuedOps) <=> cf.out.ntg # << >>
        /\ "edit" \in Range(IssuedOps) <=> (cf.out.mod # << >> \/ cf.out.mod2 # << >>)
        /\ "write" \in Range(IssuedOps)
              <=> (cf.out.mod # << >> \/ cf.out.mod2 # << >> \/ cf.out.add # << >>)
        /\ "add" \in Range(IssuedOps) <=> cf.out.add # << >>
        /\ "delete" \in Range(IssuedOps) <=> cf.out.rem # << >>

C16_Witness ==
    /\ cf.done
    /\ {"copy", "move", "edit", "write", "submit"} \subseteq Range(cf.issued)

\* the pending changelists of the client
PendingCLs(s) == {c \in CLs(s) : s[c].status = "pending" /\ s[c].client = Client}

\* the pending changelists whose description equals the description of the
\* push that just ran, once the tokens are stripped from both
Matching ==
    {c \in PendingCLs(p4) : noid(p4[c].desc) = noid(MakeDesc(repo, last'.nodes))}

\* the files the push that just ran opens: the difference between the parent
\* of its first node and its last node
PushedFiles ==
    LET c1 == Parent0(repo, last'.nodes[1])
        c2 == Last(last'.nodes)
    IN {[f |-> g, a |-> "A"] : g \in StatusAdd(repo, c1, c2)}
       \cup {[f |-> g, a |-> "R"] : g \in StatusRem(repo, c1, c2)}

\* C17: when the client has a pending changelist whose description equals
\* that of the push once the token is stripped from both, the push updates
\* that changelist and creates none (the pending changelists of the client
\* do not grow in number), and the changelist ends up holding the files of
\* this push only: what was open in it before was reverted; when no pending
\* changelist matches, the push creates one
C17_MatchingChangelistReused ==
    [][(last'.cmd = "push" /\ last'.res = "ok") =>
        /\ p4'[last'.use].files = PushedFiles
        /\ p4'[last'.use].desc = MakeDesc(repo, last'.nodes)
        /\ IF Matching # {}
           THEN /\ Cardinality(PendingCLs(p4')) <= Cardinality(PendingCLs(p4))
                /\ ~last'.submit => (last'.use \in Matching /\ Len(p4') = Len(p4))
           ELSE /\ Len(p4') = Len(p4) + 1
                /\ last'.use = Len(p4')]_vars

C17_Witness ==
    /\ last.cmd = "push" /\ last.res = "ok" /\ ~last.force /\ ~last.submit
    /\ Len(p4) = 2 /\ p4[1].client = Other /\ last.use = 2
    /\ \E n \in Anc(repo, last.nodes[1]) \ Range(last.nodes) :
          repo[n].p4 = 0 /\ HgFile \notin repo[n].files

\* the outcome of the constructor for the path and the server of the state
Built == p4client_init(view.path, view.reply, view.isdir)

\* C18: constructing a client view from any path ends in p4notclient when
\* the path is not in the p4 scheme, and otherwise in p4badclient or in a
\* view whose client is named and whose workspace root exists; no other
\* failure leaves the constructor
C18_ThreeOutcomes ==
    /\ Built.res \in {"p4notclient", "p4badclient", "view"}
    /\ Built.res = "p4notclient" <=> ~StartsWithP4(view.path)
    /\ Built.res = "view" => Built.root

\* C19: a pull, push, incoming, outgoing or clone whose path is not in the
\* p4 scheme ends in the original command of the host, after a constructor
\* that issued no remote command, and leaves the repository and the
\* changelists as they are; when the constructor raises p4badclient the
\* command aborts and does not fall back
C19_DelegatesOrAborts ==
    [][/\ ~StartsWithP4(view.path) =>
            /\ last'.res = "original"
            /\ Built.cmds = << >>
            /\ repo' = repo /\ p4' = p4
       /\ Built.res = "p4badclient" =>
            /\ last'.res = "abort"
            /\ repo' = repo /\ p4' = p4]_vars

C19_Witness ==
    /\ last.cmd = "clone" /\ last.res = "original"
    /\ view.path # << >> /\ ~StartsWithP4(view.path)
    /\ repo = << >>

\* a description whose token names a node that the repository does not have
Unresolved(desc) ==
    LET m == re_hgid_search(desc)
    IN m # 0 /\ (desc[m].a \notin Nodes(repo)
                 \/ (desc[m].b # 0 /\ desc[m].b \notin Nodes(repo)))

\* C20: a pull that meets a changelist whose embedded token cannot be
\* resolved to local nodes aborts and commits no changeset for it
C20_UnresolvedTokenAborts ==
    [][(last'.cmd = "pull" /\ \E c \in NewChanges : Unresolved(p4[c].desc)) =>
        /\ last'.res # "ok"
        /\ \A n \in (Len(repo) + 1)..Len(repo') :
              repo'[n].p4 = 0 \/ ~Unresolved(p4[repo'[n].p4].desc)]_vars

\* the first non-empty of the server lookup, the mapping of the client name
\* and the script output, the literal user name when all are empty
FirstNonEmpty ==
    IF call.server = "full" THEN FromServer
    ELSE IF call.cu = "regex" /\ call.match /\ call.mapped # NoName THEN call.mapped
    ELSE IF call.cu = "script" /\ call.script # NoName THEN call.script
    ELSE Literal

\* a call of getuser that was not answered from the cache
Uncached == call.op = "getuser" /\ call.asked # {}

\* C21 as stated: the author is the first non-empty result of the server
\* lookup, the mapping of the client name, the script and the literal user
\* name, in this order, and the server is always the first source consulted
C21_ServerLookupFirst ==
    Uncached => (call.out = FirstNonEmpty /\ "server" \in call.asked)

\* C21: the author comes from the one source that perfarce.clientuser
\* selects: the mapping of the client name when it is 'pattern replacement',
\* the script when it is a single word, the server lookup when it is unset;
\* no other source is consulted, and the literal user name is returned when
\* the pattern does not match, the script prints nothing or the server knows
\* no such user; a later call for the same user is answered from the cache
C21_SourceByConfiguration ==
    /\ Uncached =>
        /\ call.cu = "regex" =>
              /\ call.asked = {"regex"}
              /\ call.out = IF call.match THEN call.mapped ELSE Literal
        /\ call.cu = "script" =>
              /\ call.asked = {"script"}
              /\ call.out = IF call.script # NoName THEN call.script ELSE Literal
        /\ call.cu = "unset" =>
              /\ call.asked = {"server"}
              /\ call.out = CASE call.server = "full" -> FromServer
                              [] call.server = "none" -> "Abort"
                              [] OTHER -> Literal
    /\ (call.op = "getuser" /\ call.done /\ call.asked = {}) =>
          call.out \in {call.cacheN, call.cacheC}

C21_Witness ==
    /\ Uncached
    /\ call.cu = "regex" /\ call.match /\ call.server = "full"
    /\ call.out = Mapped

\* the changeset that a pull step committed for changelist c, Null if none
MadeFor(c) ==
    LET ns == {n \in (Len(repo) + 1)..Len(repo') : repo'[n].p4 = c}
    IN IF ns = {} THEN Null ELSE CHOOSE n \in ns : TRUE

\* C22: in a pull, a file entry whose action is Remove is committed as an
\* absent file and does not make the pull stop, also when contents cannot be
\* obtained; a failure to obtain the contents of an entry with another
\* action stops the pull with the 'file missing in p4 workspace' error and
\* no changeset is committed for that changelist
C22_RemoveIsAbsentOtherFailureAborts ==
    [][last'.cmd = "pull" =>
        /\ \A c \in NewChanges :
             MadeFor(c) # Null =>
                \A e \in p4[c].files :
                    /\ e.f \in repo'[MadeFor(c)].files
                    /\ e.f \in repo'[MadeFor(c)].man <=> e.a # "R"
        /\ (last'.fault = "getfile" /\ \A e \in p4[last'.at].files : e.a = "R") =>
                (last'.res = "ok" /\ \A c \in NewChanges : MadeFor(c) # Null)
        /\ (last'.fault = "getfile" /\ \E e \in p4[last'.at].files : e.a # "R") =>
                /\ last'.res = "failed" /\ last'.err = "missing"
                /\ \A c \in NewChanges : MadeFor(c) # Null <=> c < last'.at]_vars

C22_Witness ==
    /\ last.cmd = "pull" /\ last.res = "ok" /\ last.fault = "getfile"
    /\ \A e \in p4[last.at].files : e.a = "R"
    /\ \E n \in Range(last.made) :
          repo[n].p4 = last.at /\ repo[n].files \ repo[n].man # {}

\* the positions of the tokens in a description
Tokens(desc) == {i \in 1..Len(desc) : desc[i].k = "tok"}

\* C23: every description that push built contains the embedded token at
\* most once, and parsing it yields the pushed range
C23_AtMostOneToken ==
    [][(last'.cmd = "push" /\ last'.res = "ok") =>
        Cardinality(Tokens(p4'[last'.use].desc)) <= 1]_vars

\* the node range of the call before the trim: the nodes between the base
\* (or the parent of the first revision given) and the last revision,
\* without the base
FullRange ==
    LET ctx1 == IF call.rev = << >> THEN find(repo, 0, TRUE, 0, mqnode).node
                ELSE Parent0(repo, call.rev[1])
        ctx2 == IF call.rev = << >> THEN Tip(repo) ELSE Last(call.rev)
    IN Tail(nodesbetween(repo, ctx1, ctx2))

\* the range without its maximal prefix and its maximal suffix of pending
\* nodes
Kept ==
    LET keep == {i \in 1..Len(FullRange) : FullRange[i] \notin call.stat}
    IN IF keep = {} THEN << >>
       ELSE SubSeq(FullRange, CHOOSE i \in keep : \A j \in keep : i <= j,
                              CHOOSE i \in keep : \A j \in keep : j <= i)

\* C24: without --force the node list left by the trim is the range without
\* its maximal prefix and its maximal suffix of pending nodes, interior
\* pending nodes stay; after a trim that leaves nodes the added and removed
\* files are those of one diff between the first parent of the first
\* remaining node and the last remaining node
C24_TrimEndsOnlyOneDiff ==
    (call.op = "pushcommon" /\ call.done /\ call.out.res # "nochangelist") =>
        /\ call.out.nodes = Kept
        /\ (Kept # << >> /\ Kept # FullRange) =>
            /\ FilesIn(call.out.add)
                 = (Manifest(repo, Last(Kept)) \ Manifest(repo, Parent0(repo, Kept[1]))) \ {HgFile}
            /\ FilesIn(call.out.rem)
                 = (Manifest(repo, Parent0(repo, Kept[1])) \ Manifest(repo, Last(Kept))) \ {HgFile}

C24_Witness ==
    /\ call.op = "pushcommon" /\ call.done
    /\ Len(call.out.nodes) < Len(FullRange)
    /\ \E i \in 2..(Len(call.out.nodes) - 1) : call.out.nodes[i] \in call.stat
    /\ call.out.rem # << >>

\* C25: when the workspace is not mirrored, push issues a fake sync
\* followed by a forced sync that names the modified files and no other
\* path, also when the list of modified files is empty
C25_ForcedSyncOnlyTouched ==
    (cf.done /\ cf.add # << >> /\ cf.syncs[1].flag = "-k") =>
        /\ Len(cf.syncs) = 2
        /\ cf.syncs[2].flag = "-f"
        /\ ~cf.syncs[2].all
        /\ cf.syncs[2].files = FilesIn(cf.mod)

\* the position of the first error record of the stream, 0 without one
FirstError ==
    LET E == {i \in 1..Len(call.stream) : call.stream[i].code = "error"}
    IN IF E = {} THEN 0 ELSE CHOOSE i \in E : \A j \in E : i <= j

\* C26: the records before the first error record are delivered in order;
\* the error record raises a failure with the server's message unless
\* aborts are suppressed, and then it is delivered and nothing is raised
C26_RecordsUntilFirstError ==
    /\ call.out = SubSeq(call.stream, 1, Len(call.out))
    /\ call.at = Len(call.out) + 1
    /\ IF call.abort /\ FirstError # 0
       THEN /\ Len(call.out) < FirstError
            /\ call.raised # "None" =>
                   /\ Len(call.out) = FirstError - 1
                   /\ call.raised = call.stream[FirstError].data
            /\ call.at = FirstError => ENABLED RunNext \/ call.raised # "None"
       ELSE /\ call.raised = "None"
            /\ call.at <= Len(call.stream) => ENABLED RunNext

C26_Witness ==
    /\ call.op = "run"
    /\ call.raised = "m2"
    /\ Len(call.out) = 2

C26_WitnessSuppressed ==
    /\ call.op = "run" /\ ~call.abort
    /\ FirstError = 1 /\ Len(call.out) = Len(call.stream) /\ Len(call.out) = 2

\* the marked changesets among the start revision and its ancestors
MarkedAnc == {n \in Anc(repo, Tip(repo)) : repo[n].p4 # 0}

\* the fewest parent steps from the changesets F to the ancestor n
RECURSIVE StepsTo(_, _, _)
StepsTo(F, n, d) ==
    IF n \in F \/ F = {} THEN d
    ELSE StepsTo(UNION {Range(Parents(repo, x)) \ {Null} : x \in F}, n, d + 1)

FromStart(n) == StepsTo({Tip(repo)}, n, 0)

\* the changeset whose marker find read
Matched == {n \in Nodes(repo) : repo[n].p4 # 0 /\ repo[n].p4 = call.out.p4}

C27_WitnessNone ==
    /\ call.op = "find" /\ call.done /\ ~call.abort
    /\ call.out.node = Null /\ repo[Tip(repo)].p2 # Null

\* n is reached from m through changesets that touch only .hg* files
RECURSIVE OnWalk(_, _)
OnWalk(m, n) ==
    \/ n = m
    \/ /\ n # Null /\ dothgonly(repo, n)
       /\ \E q \in Range(Parents(repo, n)) : OnWalk(m, q)

\* C28: in base mode the node returned is reached from the matched
\* changeset through changesets that touch only .hg* files, it is no
\* changeset of the patch queue, and the id is the matched changeset's
C28_BaseWalkOutsideQueue ==
    (call.op = "find" /\ call.base /\ call.out.found) =>
        \E m \in Matched :
            /\ OnWalk(m, call.out.node)
            /\ call.out.node \notin Queue(repo, call.mq)
            /\ call.out.p4 = repo[m].p4

\* the walk of C28 without the part on the patch queue
C28_BaseWalkHgOnly ==
    (call.op = "find" /\ call.base /\ call.out.found) =>
        \E m \in Matched :
            /\ OnWalk(m, call.out.node)
            /\ call.out.p4 = repo[m].p4

\* C29: the matched changeset is the most recent marked one: no other
\* marked ancestor of the start revision descends from it
C29_MostRecentMarked ==
    (call.op = "find" /\ call.out.found) =>
        \A m \in Matched : \A x \in MarkedAnc \ {m} : m \notin Anc(repo, x)

\* C30: a query of the tracker that follows a create, update, submit or
\* revert/delete of a changelist returns the server's state after it, not
\* the state cached before
C30_QueryAfterMutationIsFresh ==
    (call.op = "client" /\ call.did = "query") =>
        call.got = Tracker(readp4stat(repo, p4))

Ascending(es) == \A i, j \in 1..Len(es) : i < j => es[i].change < es[j].change

\* the records of the tracker before the sort, for the current server state
Unsorted ==
    LET p4id == find(repo, 0, FALSE, 0, mqnode).p4
    IN helperAll(repo, p4, SubmittedSince(p4, p4id) \o PendingOf(p4), p4id)

\* C31: the record list of the tracker is in ascending order of changelist
\* id, in whatever order the replies of the server list the changelists
C31_RecordsAscending ==
    call.op = "client" =>
        /\ Ascending(call.got.p4pending)
        /\ \A f \in Permutations(1..Len(Unsorted)) :
             Ascending(sortEntries([i \in 1..Len(Unsorted) |-> Unsorted[f[i]]]))

C31_Witness ==
    /\ call.op = "client" /\ call.did = "query"
    /\ Len(call.got.p4pending) = 2
    /\ call.got.p4pending[1].submitted # call.got.p4pending[2].submitted

\* C32: no record of the tracker has the id of the changelist the
\* repository is correlated with
C32_BaseChangelistExcluded ==
    call.op = "client" =>
        \A i \in 1..Len(call.got.p4pending) :
            call.got.p4pending[i].change # find(repo, 0, FALSE, 0, mqnode).p4

C32_Witness ==
    /\ call.op = "client" /\ call.did = "query"
    /\ p4[find(repo, 0, FALSE, 0, mqnode).p4].client = Client
    /\ Len(call.got.p4pending) >= 1

\* C33: every action word the server reports is mapped to Add, Modify or
\* Remove by the table, and no reported word makes describe or fstat fail
C33_ActionTableTotal ==
    (call.op = "describe" /\ call.done) =>
        /\ call.out.err = "none"
        /\ Len(call.out.files) = Len(call.reply)
        /\ \A i \in 1..Len(call.out.files) :
             LET ac == call.reply[i]
                 a == call.out.files[i].a
             IN /\ a \in {"A", "M", "R"}
                /\ a = "A" <=> ac \in {"add", "branch", "move/add", "import"}
                /\ a = "M" <=> ac \in {"edit", "integrate"}
                /\ a = "R" <=> ac \in {"delete", "move/delete", "purge"}

\* C34: an added file with a copy source that is not moved is copied iff
\* the server supports copy and integrated otherwise; whichever of move,
\* copy or integrate was chosen, the destination is also modified iff the
\* copy changed content or flags; an added file without source stays added
C34_CopyOrIntegrateAndModify ==
    cf.done =>
        \A i \in 1..Len(cf.add) :
            LET f == cf.add[i].f
            IN IF f \in DOMAIN cf.cpy
               THEN /\ f \notin FilesIn(cf.out.moves) =>
                          /\ f \in FilesIn(cf.out.copies) <=> cf.copy
                          /\ f \in FilesIn(cf.out.ntg) <=> ~cf.copy
                    /\ f \in FilesIn(cf.out.mod2) <=> cf.cpy[f].chg
                    /\ f \notin FilesIn(cf.out.add)
               ELSE /\ f \in FilesIn(cf.out.add)
                    /\ f \notin FilesIn(cf.out.moves) \cup FilesIn(cf.out.copies)
                                \cup FilesIn(cf.out.ntg) \cup FilesIn(cf.out.mod2)

C34_Witness ==
    /\ cf.done /\ ~cf.copy
    /\ \E i \in 1..Len(cf.out.ntg) : cf.cpy[cf.out.ntg[i].f].chg
    /\ cf.out.add # << >>

\* the number of entries of a list for file f
Count(es, f) == Cardinality({i \in 1..Len(es) : es[i].f = f})

MoveSources == {cf.out.moves[i].src : i \in 1..Len(cf.out.moves)}

\* C36: every added file is in exactly one of the move, copy, integrate and
\* add lists; every move takes its source from the input remove list and no
\* removed file is the source of two moves; the final remove list is the
\* input one without the sources of the moves; the modified list is the
\* input one
C36_ClassifierPartition ==
    cf.done =>
        /\ \A i \in 1..Len(cf.add) :
             LET f == cf.add[i].f
             IN Count(cf.out.moves, f) + Count(cf.out.copies, f)
                + Count(cf.out.ntg, f) + Count(cf.out.add, f) = 1
        /\ MoveSources \subseteq FilesIn(cf.rem)
        /\ Cardinality(MoveSources) = Len(cf.out.moves)
        /\ cf.out.rem = SelectSeq(cf.rem, LAMBDA e : e.f \notin MoveSources)
        /\ cf.out.mod = cf.mod

C36_Witness ==
    /\ cf.done
    /\ Len(cf.out.moves) = 1
    /\ Len(cf.rem) = 2 /\ Len(cf.out.rem) = 1

\* C35: when a changelist id is requested and an ancestor of the start
\* revision carries it, find returns a changeset found through the marker
\* with that id, in base mode and in non-base mode
C35_RequestedChangelistFound ==
    (call.op = "findrev"
     /\ \E n \in Anc(repo, Tip(repo)) : repo[n].p4 = call.p4rev) =>
        /\ call.out.found
        /\ call.out.p4 = call.p4rev

\* the non-base half of C35
C35_RequestedChangelistFoundNonBase ==
    (call.op = "findrev" /\ ~call.base
     /\ \E n \in Anc(repo, Tip(repo)) : repo[n].p4 = call.p4rev) =>
        /\ call.out.found
        /\ repo[call.out.node].p4 = call.p4rev

\* the ranges of the current state whose diff touches only .hg* files or
\* whose nodes were all trimmed, and that pushcommon does not report as
\* 'no changes found'; with inp4, also those it stops at a node that is
\* already in p4 (pending, or parent of a changeset with a marker)
NotReported(inp4) ==
    LET f == find(repo, 0, TRUE, 0, mqnode)
        stat == readp4stat(repo, p4).p4stat
    IN IF ~f.found THEN {}
       ELSE {rev \in RevsOf([Normal EXCEPT !.revs = "single"], repo) :
               LET pc == pushnodes(repo, f, stat, rev, FALSE)
               IN /\ pc.add = << >> /\ pc.rem = << >>
                  /\ pc.res # "nochanges"
                  /\ inp4 \/ \A i \in 1..Len(pc.nodes) : ~AlreadyInP4(repo, pc.nodes[i], stat)}

C38_OneChangesetPerChangelist ==
    \A c \in CLs(p4) : Cardinality({n \in Nodes(repo) : repo[n].p4 = c}) <= 1

\* C39: the rollback of a failed push runs on the client the push was
\* made to, whatever the destination of the push, so that the changelist of
\* the push is the one reverted
C39_RollbackOnPushClient ==
    [][(last'.cmd = "push" /\ last'.res = "failed") =>
          /\ last'.err # "notclient"
          /\ last'.fault # "sync0" => p4'[last'.use].files = {}]_vars

\* ------------------------------------------------------------------------
\* Two pushes to one client, lines 1425-1575, one remote command at a time

\* the two pushes
Procs == {"a", "b"}
OtherProc(P) == IF P = "a" THEN "b" ELSE "a"

\* a push: where it stands, the files it computed (all of them modified),
\* its description, whether it submits, the changelist it uses, and the file
\* list of that changelist when the push ended
NoPush ==
    [pc |-> "idle", files |-> {}, desc |-> << >>, submit |-> FALSE, use |-> 0, got |-> {}]

Running(q) == q.pc \notin {"idle", "done", "failed"}

InitRace ==
    /\ repo = << >>
    /\ nuser = 0
    /\ p4 = << >>
    /\ last = Blank
    /\ cf = NoClassify
    /\ view = DefaultView
    /\ call = [op |-> "race", a |-> NoPush, b |-> NoPush, overlap |-> FALSE]

\* the descriptions of the two pushes: they differ in the token only, or in
\* the text
RaceDescs(P) ==
    IF P = "a" THEN {<<Txt, Tok(1, 1)>>} ELSE {<<Txt, Tok(2, 2)>>, <<Txt, Txt>>}

\* push is entered with the lists pushcommon computed; overlap records that
\* the other push had not ended then
Begin(P) ==
    /\ call[P].pc = "idle"
    /\ \E F \in SUBSET (1..MaxFiles), desc \in RaceDescs(P), submit \in BOOLEAN :
        /\ F # {}
        /\ call' = [call EXCEPT ![P] = [NoPush EXCEPT !.pc = "lookup", !.files = F,
                                                       !.desc = desc, !.submit = submit],
                                !.overlap = @ \/ Running(call[OtherProc(P)])]
    /\ UNCHANGED <<repo, nuser, p4, last, cf, view>>

\* lines 1429-1433: changes -s pending
Lookup(P) ==
    /\ call[P].pc = "lookup"
    /\ call' = [call EXCEPT ![P].pc = "revertuse",
                            ![P].use = Reuse(p4, PendingOf(p4), noid(call[P].desc), 0)]
    /\ UNCHANGED <<repo, nuser, p4, last, cf, view>>

\* lines 1444-1447: describe and revert -c of the changelist to reuse,
\* outside the try block; both fail for a changelist that is no longer
\* pending
RevertUse(P) ==
    /\ call[P].pc = "revertuse"
    /\ LET use == call[P].use
       IN IF use = 0
          THEN /\ call' = [call EXCEPT ![P].pc = "reverttouched"]
               /\ UNCHANGED p4
          ELSE IF p4[use].status # "pending"
          THEN /\ call' = [call EXCEPT ![P].pc = "failed"]
               /\ UNCHANGED p4
          ELSE /\ p4' = RevertIn(p4, use, Names(p4[use].files))
               /\ call' = [call EXCEPT ![P].pc = "reverttouched"]
    /\ UNCHANGED <<repo, nuser, last, cf, view>>

\* lines 1449-1450: revert of the files of the push, abort=False
RevertTouched(P) ==
    /\ call[P].pc = "reverttouched"
    /\ p4' = RevertFiles(p4, call[P].files)
    /\ call' = [call EXCEPT ![P].pc = "change"]
    /\ UNCHANGED <<repo, nuser, last, cf, view>>

\* line 1489: client.change(use, desc), outside the try block
Change(P) ==
    /\ call[P].pc = "change"
    /\ LET use == call[P].use
       IN IF use # 0 /\ p4[use].status # "pending"
          THEN /\ call' = [call EXCEPT ![P].pc = "failed"]
               /\ UNCHANGED p4
          ELSE /\ Len(p4) + (IF use = 0 THEN 1 ELSE 0) <= MaxCL
               /\ p4' = change(p4, use, call[P].desc, FALSE)
               /\ call' = [call EXCEPT ![P].pc = "open",
                                       ![P].use = IF use = 0 THEN Len(p4) + 1 ELSE use]
    /\ UNCHANGED <<repo, nuser, last, cf, view>>

\* the files of F open in another pending changelist of the client
OpenElsewhere(s, use, F) ==
    {f \in F : \E c \in PendingCLs(s) : c # use /\ f \in Names(s[c].files)}

\* lines 1491-1575, the end of a push: the file list of its changelist
Ended(P, pc, s, c) ==
    [call EXCEPT ![P].pc = pc,
                 ![P].use = c,
                 ![P].got = IF c \in CLs(s) THEN s[c].files ELSE {}]

\* lines 1543-1544 and 1504-1513: edit -c use; the server opens the files it
\* can and answers "use 'reopen'" for a file open in another changelist,
\* which aborts the push; lines 1573-1575 then run the rollback
Open(P) ==
    /\ call[P].pc = "open"
    /\ LET use == call[P].use
           F == call[P].files
       IN IF p4[use].status # "pending"
          THEN \E defok \in BOOLEAN :
                /\ p4' = Rollback(p4, use, defok)
                /\ call' = Ended(P, "failed", p4', use)
          ELSE LET busy == OpenElsewhere(p4, use, F)
                   s1 == [p4 EXCEPT ![use].files =
                              @ \cup {[f |-> f, a |-> "M"] : f \in F \ busy}]
               IN IF busy # {}
                  THEN \E defok \in BOOLEAN :
                        /\ p4' = Rollback(s1, use, defok)
                        /\ call' = Ended(P, "failed", p4', use)
                  ELSE /\ p4' = s1
                       /\ call' = IF call[P].submit
                                  THEN [call EXCEPT ![P].pc = "submit"]
                                  ELSE Ended(P, "done", s1, use)
    /\ UNCHANGED <<repo, nuser, last, cf, view>>

\* line 1569 and p4client.submit, lines 885-902: an error of the server, as
\* for a changelist with no files or one already submitted, aborts the push
SubmitUse(P) ==
    /\ call[P].pc = "submit"
    /\ LET use == call[P].use
       IN IF p4[use].status # "pending" \/ p4[use].files = {}
          THEN \E defok \in BOOLEAN :
                /\ p4' = Rollback(p4, use, defok)
                /\ call' = Ended(P, "failed", p4', use)
          ELSE /\ p4' = ServerSubmit(p4, use)
               /\ Len(p4') <= MaxCL + 1
               /\ call' = Ended(P, "done", p4', Len(p4'))
    /\ UNCHANGED <<repo, nuser, last, cf, view>>

NextRace ==
    \E P \in Procs :
        \/ Begin(P)
        \/ Lookup(P)
        \/ RevertUse(P)
        \/ RevertTouched(P)
        \/ Change(P)
        \/ Open(P)
        \/ SubmitUse(P)

SpecRace == InitRace /\ [][NextRace]_vars

\* the file list a push computed
Computed(q) == {[f |-> f, a |-> "M"] : f \in q.files}

C40_WitnessReverted ==
    /\ call.op = "race" /\ call.overlap
    /\ \E P \in Procs :
        /\ call[P].pc = "done" /\ call[P].submit
        /\ p4[call[P].use].status = "submitted"
        /\ p4[call[P].use].files # Computed(call[P])
        /\ p4[call[P].use].files \subseteq Computed(call[P])
        /\ noid(call.a.desc) # noid(call.b.desc)

\* the pushes ran one at a time, the second reused the changelist the first
\* left pending, and each ended with the list it computed
C40_WitnessOneAtATime ==
    /\ call.op = "race" /\ ~call.overlap
    /\ call.a.pc = "done" /\ call.b.pc = "done"
    /\ call.a.files \cap call.b.files # {}
    /\ call.a.files # call.b.files
    /\ \E P \in Procs : call[P].use = call[OtherProc(P)].use /\ call[P].submit

====
